---------------------------- MODULE Spec2Model ----------------------------
(***************************************************************************)
(* A model of the DeepMIP validation-table pipeline (plot_z-scores.py):    *)
(* file location, the memoised regridder and reducer, the validator and    *)
(* level selector, the table builder, the outlier scorer and the task      *)
(* orchestrator.                                                           *)
(*                                                                         *)
(* Numbers are fixed-point integers counting hundredths (290.1 is 29010).  *)
(* A table cell is a record [nan, v]: nan = TRUE is numpy's NaN.           *)
(* A file path is a record [dir, base, ext]: the directory segments, the   *)
(* "_"-joined pieces of the file name and its "."-joined suffixes.         *)
(***************************************************************************)
EXTENDS Integers, Sequences, FiniteSets, TLC

VARIABLES
    disk,       \* the filesystem: path -> dataset description, for every existing file
    cdo_calls,  \* the external tool's invocations so far (validation: output path -> count)
    futures,    \* the submitted tasks, in submission order, with each worker's position
    orch,       \* the orchestrator (main): its position, the result loop's index, exit state
    stdout,     \* the diagnostic lines printed so far
    rendered,   \* the table artifacts saved by draw_table
    call        \* a single function call under test: [fn, args, pc, out]

vars == <<disk, cdo_calls, futures, orch, stdout, rendered, call>>

-----------------------------------------------------------------------------
(* Configuration constants of plot_z-scores.py                             *)

DBDIR == "/data/deepmip-eocene-p1"
VERSION == "v1.0"
GRID == "r180x90"
REGRID_DIR == <<DBDIR, "validation_tables", "data">>
table_list == <<"atmos", "ocean">>
time_list == <<"mean", "time_series">>

(* The lookup tables.  exp_dict is used through its keys only.             *)
exp_keys ==
    <<"deepmip-eocene-p1-PI", "deepmip-eocene-p1-x1", "deepmip-eocene-p1-x1.5",
      "deepmip-eocene-p1-x2", "deepmip-eocene-p1-x3", "deepmip-eocene-p1-x4",
      "deepmip-eocene-p1-x6", "deepmip-eocene-p1-x9">>

(* The variable records the tables are built from: a surface field with a  *)
(* unit conversion, a 4-D ocean field with one, a time-invariant field.    *)
variable_keys == <<"ps", "uo", "sftlf">>

variable_dict ==
    [v \in {variable_keys[i] : i \in DOMAIN variable_keys} |->
        CASE v = "ps"    -> [unit |-> "Pa", dimensions |-> 3, realm |-> "atmos"]
          [] v = "uo"    -> [unit |-> "cms^{-1}", dimensions |-> 4, realm |-> "ocean"]
          [] v = "sftlf" -> [unit |-> "[0,1]", dimensions |-> 2, realm |-> "atmos"]]

(* The experiments the tables are built for. *)
exp_dict_keys == <<"deepmip-eocene-p1-x1">>

(* The model table plot_z-scores.py imports                                *)
(* (dictionaries.deepmip_eocene_p1_models): each record carries the        *)
(* family and the display abbreviation.                                    *)
model_keys == <<"CESM1.2-CAM5", "COSMOS-landveg-r2413">>

model_dict ==
    [m \in {model_keys[i] : i \in DOMAIN model_keys} |->
        CASE m = "CESM1.2-CAM5"         -> [family |-> "CESM", abbrv |-> "CESM"]
          [] m = "COSMOS-landveg-r2413" -> [family |-> "COSMOS", abbrv |-> "COSMOS"]]

Range(s) == {s[i] : i \in DOMAIN s}

-----------------------------------------------------------------------------
(* File locator                                                            *)

Raise(exc) == [raised |-> exc]
Raised(r) == "raised" \in DOMAIN r

(* faulty variant: the mode is never part of the suffix *)
filename_ext_no_time_key(variable_info, time_key) == <<"nc">>

(* The file name's suffix: ".<time_key>.nc" for a time-varying variable,   *)
(* ".nc" alone for a time-invariant boundary condition.                    *)
filename_ext(variable_info, time_key) ==
    IF variable_info.dimensions > 2 THEN <<time_key, "nc">> ELSE <<"nc">>

construct_filename(e_key, v_key, m_key, model_info, variable_info, time_key) ==
    IF "family" \notin DOMAIN model_info THEN Raise("KeyError")
    ELSE IF time_key \notin {"mean", "time_series"} THEN Raise("UnboundLocalError")
    ELSE
      LET directory == IF time_key = "mean" THEN "climatology" ELSE "time_series"
      IN  [dir  |-> <<DBDIR, model_info.family, m_key, e_key, VERSION, directory>>,
           base |-> <<v_key, m_key, e_key, "v1.0">>,
           ext  |-> filename_ext(variable_info, time_key)]

(* faulty variant: every file is taken to exist *)
check_file_exists_always(filename) == TRUE

(* os.path.exists(filename) *)
check_file_exists(filename) == filename \in DOMAIN disk

-----------------------------------------------------------------------------
(* Derived-artifact names: os.path.join(REGRID_DIR, basename.replace(".nc", *)
(* ".<suffix>.nc")).  The directory of the input is dropped; every "nc"    *)
(* suffix becomes <suffix>, "nc".                                          *)

RECURSIVE replace_nc(_, _)
replace_nc(ext, suffix) ==
    IF ext = <<>> THEN <<>>
    ELSE (IF Head(ext) = "nc" THEN <<suffix, "nc">> ELSE <<Head(ext)>>)
         \o replace_nc(Tail(ext), suffix)

derived_file(input_file, suffix) ==
    [dir |-> REGRID_DIR, base |-> input_file.base, ext |-> replace_nc(input_file.ext, suffix)]

regridded_name(input_file, grid_def) == derived_file(input_file, grid_def)
mean_name(input_file) == derived_file(input_file, "mean")
min_name(input_file) == derived_file(input_file, "min")
max_name(input_file) == derived_file(input_file, "max")
combined_name(input_file) == derived_file(input_file, "mean_min_max")

-----------------------------------------------------------------------------
(* Numbers                                                                 *)

NaN == [nan |-> TRUE, v |-> 0]
Num(x) == [nan |-> FALSE, v |-> x]
isnan(c) == c.nan

Abs(x) == IF x < 0 THEN -x ELSE x
(* faulty variant: the sign is kept *)
absolute_identity(x) == x

(* np.absolute *)
absolute(x) == Abs(x)

RECURSIVE insert_sorted(_, _)
insert_sorted(x, s) ==
    IF s = <<>> THEN <<x>>
    ELSE IF x <= Head(s) THEN <<x>> \o s
    ELSE <<Head(s)>> \o insert_sorted(x, Tail(s))

RECURSIVE sorted(_)
sorted(s) == IF s = <<>> THEN <<>> ELSE insert_sorted(Head(s), sorted(Tail(s)))

RECURSIVE SumSeq(_)
SumSeq(s) == IF s = <<>> THEN 0 ELSE Head(s) + SumSeq(Tail(s))

RECURSIVE SumSq(_)
SumSq(s) == IF s = <<>> THEN 0 ELSE Head(s) * Head(s) + SumSq(Tail(s))

(* The non-NaN numbers of a sequence of cells, in order (skipna).          *)
RECURSIVE dropna(_)
dropna(cells) ==
    IF cells = <<>> THEN <<>>
    ELSE (IF isnan(Head(cells)) THEN <<>> ELSE <<Head(cells).v>>) \o dropna(Tail(cells))

(* Twice the median of a non-empty sequence of numbers: the middle element *)
(* of the sorted values, or the mean of the two middle ones.               *)
median2(xs) ==
    LET s == sorted(xs)
        n == Len(s)
    IN  IF n % 2 = 1 THEN 2 * s[(n + 1) \div 2] ELSE s[n \div 2] + s[n \div 2 + 1]

(* np.round(x, 1) of x = n2/2 hundredths: the nearest tenth, a tie going   *)
(* to the even tenth.  The result is in hundredths.                        *)
round1(n2) ==
    LET q == n2 \div 20
        r == n2 % 20
    IN  10 * (IF r < 10 THEN q
              ELSE IF r > 10 THEN q + 1
              ELSE IF q % 2 = 0 THEN q ELSE q + 1)

-----------------------------------------------------------------------------
(* Validator and level selector.                                           *)
(*                                                                         *)
(* A dataset description is what xarray reads from a reduced artifact:     *)
(*   var     the variable the fields <var>_mean, <var>_min, <var>_max are  *)
(*           named after                                                   *)
(*   ndim    the number of dimensions of <var>_mean                        *)
(*   nsteps  the size of the dimension with axis "T" (0: no such axis)     *)
(*   zunits  the units attribute of the dimension with axis "Z"            *)
(*           ("": no such attribute)                                       *)
(*   levels  the vertical coordinate in storage order (<<>>: no axis "Z")  *)
(*   field   per vertical level (one entry without a vertical axis) the    *)
(*           cells [min, mean, max] the nan-reductions over the remaining  *)
(*           dimensions yield                                              *)

Exit(msg) == [kind |-> "exit", msg |-> msg]
Throw(exc) == [kind |-> "raise", exc |-> exc]
Return(lev, f) ==
    [kind |-> "return", level |-> lev, mean |-> f.mean, min |-> f.min, max |-> f.max]

Min(S) == CHOOSE x \in S : \A y \in S : x <= y
Max(S) == CHOOSE x \in S : \A y \in S : x >= y

(* index.is_monotonic_increasing or index.is_monotonic_decreasing, for a   *)
(* coordinate without repeated values                                      *)
StrictlyMonotonic(s) ==
    \/ \A i \in 1..(Len(s) - 1) : s[i] < s[i + 1]
    \/ \A i \in 1..(Len(s) - 1) : s[i] > s[i + 1]

(* faulty variant: of two levels equally far the first in storage order *)
sel_nearest_first_stored(levels, target) ==
    LET dist(i) == Abs(levels[i] - target)
        best == Min({dist(i) : i \in DOMAIN levels})
    IN  Min({i \in DOMAIN levels : dist(i) = best})

(* ds.sel({dim: target}, method="nearest") on a monotonic coordinate: the  *)
(* position of the level closest to the target; of two levels equally far  *)
(* the larger one is taken.                                                *)
sel_nearest(levels, target) ==
    LET dist(i) == Abs(levels[i] - target)
        best == Min({dist(i) : i \in DOMAIN levels})
        ties == {i \in DOMAIN levels : dist(i) = best}
    IN  CHOOSE i \in ties : \A j \in ties : levels[j] <= levels[i]

(* The target of the nearest-level selection for a recognized unit, 0 for  *)
(* an unrecognized one.                                                    *)
level_target(vertical_units) ==
    IF vertical_units \in {"Pa"} THEN 50000
    ELSE IF vertical_units \in {"hPa", "mbar"} THEN 500
    ELSE IF vertical_units \in {"m", "meters"} THEN 1000
    ELSE IF vertical_units \in {"centimeters"} THEN 100000
    ELSE 0

(* faulty variant: ua, va, wa take the first level whatever the unit *)
select_level_wind_first(ds, v_key) ==
    IF v_key \in {"ua", "va", "wa"} THEN 1
    ELSE IF level_target(ds.zunits) # 0 THEN sel_nearest(ds.levels, level_target(ds.zunits))
    ELSE 0

(* The position of the selected vertical level, 0 when the convention is   *)
(* not recognized.                                                         *)
select_level(ds, v_key) ==
    IF level_target(ds.zunits) # 0 THEN sel_nearest(ds.levels, level_target(ds.zunits))
    ELSE IF v_key \in {"ua", "va", "wa"} THEN 1
    ELSE 0

(* faulty variant: any number of time steps passes *)
timesteps_ok_any(n) == TRUE

(* da_gm[time_dim_name].size in [1, 12] *)
timesteps_ok(n) == n \in {1, 12}

(* the fields f"{v_key}_mean", f"{v_key}_min", f"{v_key}_max" *)
reduced_names(v_key) == {<<v_key, "mean">>, <<v_key, "min">>, <<v_key, "max">>}

process_mean_min_max(ds, v_key, variable_info) ==
    IF <<v_key, "mean">> \notin ds.names THEN Throw("KeyError")
    ELSE IF ds.ndim # variable_info.dimensions THEN Exit("dimensions")
    ELSE IF variable_info.dimensions > 2 /\ ds.nsteps = 0 THEN Throw("ValueError")
    ELSE IF variable_info.dimensions > 2 /\ ~timesteps_ok(ds.nsteps) THEN Exit("timesteps")
    ELSE IF variable_info.dimensions <= 3 THEN
        IF reduced_names(v_key) \subseteq ds.names THEN Return(0, ds.field[1])
        ELSE Throw("KeyError")
    ELSE IF variable_info.dimensions = 4 THEN
        IF ds.levels = <<>> THEN Throw("ValueError")
        ELSE IF ds.zunits = "" THEN Throw("KeyError")
        \* the nearest-level lookup of the coordinate's index raises
        \* "index must be monotonic increasing or decreasing"
        ELSE IF level_target(ds.zunits) # 0 /\ ~StrictlyMonotonic(ds.levels)
             THEN Throw("ValueError")
        ELSE IF select_level(ds, v_key) = 0 THEN Exit("vertical units")
        ELSE IF ~(reduced_names(v_key) \subseteq ds.names) THEN Throw("KeyError")
        ELSE Return(select_level(ds, v_key), ds.field[select_level(ds, v_key)])
    ELSE Throw("UnboundLocalError")

-----------------------------------------------------------------------------
(* Outlier scorer.                                                         *)
(*                                                                         *)
(* A table row is the sequence of its columns: the unit, then min, mean,   *)
(* max of every model in turn, then min, mean, max of the median.  A score *)
(* is [nan, num2, varn, vard, guard]: not a number, or num2 / (2 d) with   *)
(* d = 1 when guard (the group's standard deviation is 0) and              *)
(* d = sqrt(varn / vard), the sample standard deviation, otherwise.        *)

NaNScore == [nan |-> TRUE, num2 |-> 0, varn |-> 0, vard |-> 1, guard |-> FALSE]

(* df.iloc[:, 1:-3] *)
strip_columns(row) == SubSeq(row, 2, Len(row) - 3)

(* df.iloc[:, i::3]: the positions i+1, i+4, ... *)
RECURSIVE subgroup(_, _)
subgroup(cells, i) ==
    IF Len(cells) <= i THEN <<>>
    ELSE <<cells[i + 1]>> \o subgroup(SubSeq(cells, 4, Len(cells)), i)

(* the group (0: min, 1: mean, 2: max) of column position p *)
group_of(p) == (p - 1) % 3

(* std_devs == 0 *)
std_guard(varn) == varn = 0

(* (x - median) / (std + (std == 0)) for one cell x of a group *)
z_score(x, group) ==
    LET xs == dropna(group)
        n == Len(xs)
        varn == n * SumSq(xs) - SumSeq(xs) * SumSeq(xs)
    IN  IF isnan(x) \/ n = 0 THEN NaNScore          \* x or the median is NaN
        ELSE IF n = 1 THEN NaNScore                 \* std with ddof = 1 of one value is NaN
        ELSE IF varn = 0 /\ ~std_guard(varn) THEN
             (IF 2 * x.v = median2(xs) THEN NaNScore   \* 0 / 0
              ELSE [nan |-> FALSE, num2 |-> 2 * x.v - median2(xs), varn |-> 0,
                    vard |-> n * (n - 1), guard |-> FALSE])
        ELSE [nan |-> FALSE, num2 |-> 2 * x.v - median2(xs), varn |-> varn,
              vard |-> n * (n - 1), guard |-> std_guard(varn)]

abs_score(z) == [z EXCEPT !.num2 = absolute(@)]

compute_group_z_scores(df) ==
    [r \in DOMAIN df |->
        LET cells == strip_columns(df[r])
        IN  [p \in 1..Len(cells) |->
                abs_score(z_score(cells[p], subgroup(cells, group_of(p))))]]

-----------------------------------------------------------------------------
(* Table builder: helpers of process_single_table                          *)

stats == <<"min", "mean", "max">>

excluded_variables == {"msftmz", "msftbarot", "rsnscs", "rlnscs"}

table_vars(table_realm) ==
    SelectSeq(variable_keys,
              LAMBDA key : variable_dict[key].realm = table_realm
                           /\ key \notin excluded_variables)

NumModels == Len(model_keys)

(* the position in a row of statistic g (0: min, 1: mean, 2: max) of       *)
(* column group k: the models in table order, then the median              *)
column_of(k, g) == 1 + 3 * (k - 1) + g + 1
median_group == NumModels + 1

(* pd.DataFrame(index, columns), then insert(0, "unit", 0) *)
overview_table(table_realm) ==
    [v \in Range(table_vars(table_realm)) |->
        <<(<<"0">>)>> \o [p \in 1..(3 * (NumModels + 1)) |-> NaN]]

(* the displayed unit of a variable record, as the pieces of the string *)
unit_dict(variable_info) ==
    IF variable_info.unit = "%" THEN <<"$", "\\%", "$">> ELSE <<"$", variable_info.unit, "$">>

(* factor (num / den) and replacement unit *)
conversion_factors ==
    [v \in {"pr", "evspsbl", "wfo", "ps", "psl", "hus", "uo", "vo", "wo", "difvtrbo", "difvmo"} |->
        CASE v \in {"pr", "evspsbl", "wfo"} -> [num |-> 86400, den |-> 1, unit |-> <<"$", "mm day^{-1}", "$">>]
          [] v \in {"ps", "psl"} -> [num |-> 1, den |-> 100, unit |-> <<"$", "hPa", "$">>]
          [] v = "hus" -> [num |-> 1000, den |-> 1, unit |-> <<"$", "1", "$">>]
          [] v \in {"uo", "vo"} -> [num |-> 100, den |-> 1, unit |-> <<"$", "cm s^{-1}", "$">>]
          [] v = "wo" -> [num |-> 86400, den |-> 1, unit |-> <<"$", "m day^{-1}", "$">>]
          [] v \in {"difvtrbo", "difvmo"} -> [num |-> 10000, den |-> 1, unit |-> <<"$", "cm^{-2} s^{-1}", "$">>]]

(* faulty variant: the factor is not applied *)
scale_none(c, v_key) == c

(* global_min *= factor (and mean, max) for a variable of the table *)
scale(c, v_key) ==
    IF v_key \notin DOMAIN conversion_factors \/ isnan(c) THEN c
    ELSE Num((c.v * conversion_factors[v_key].num) \div conversion_factors[v_key].den)

(* the row with the three cells of column group k set *)
set_cells(row, k, lo, mid, hi) ==
    [row EXCEPT ![column_of(k, 0)] = lo, ![column_of(k, 1)] = mid, ![column_of(k, 2)] = hi]

(* overview_table.loc[v_key, (model_names_orig, stat)] *)
model_values(row, g) == [k \in 1..NumModels |-> row[column_of(k, g)]]

(* faulty variant: 0 instead of NaN when every model value is NaN *)
ensemble_median_zero_when_empty(values) ==
    IF dropna(values) = <<>> THEN Num(0) ELSE Num(round1(median2(dropna(values))))

(* the median cell of one statistic: NaN when every model value is NaN,    *)
(* np.round(np.nanmedian(values), 1) otherwise                             *)
ensemble_median(values) ==
    IF dropna(values) = <<>> THEN NaN ELSE Num(round1(median2(dropna(values))))

-----------------------------------------------------------------------------
(* Single calls of the pure functions: Init draws the arguments, the       *)
(* action applies the function.  The pipeline's variables stay idle.       *)

NoCall == [fn |-> "none", pc |-> "done"]

PipelineIdle ==
    /\ disk = <<>>
    /\ cdo_calls = <<>>
    /\ futures = <<>>
    /\ orch = [pc |-> "none"]
    /\ stdout = {}
    /\ rendered = {}

(* construct_filename *)
InitFile ==
    /\ PipelineIdle
    /\ call \in [fn : {"construct_filename"}, pc : {"call"},
                 e_key : Range(exp_keys), v_key : DOMAIN variable_dict,
                 m_key : DOMAIN model_dict, time_key : Range(time_list)]

CallConstructFilename ==
    /\ call.fn = "construct_filename" /\ call.pc = "call"
    /\ call' = [fn |-> call.fn, pc |-> "done", e_key |-> call.e_key, v_key |-> call.v_key,
                m_key |-> call.m_key, time_key |-> call.time_key,
                out |-> construct_filename(call.e_key, call.v_key, call.m_key,
                                           model_dict[call.m_key],
                                           variable_dict[call.v_key], call.time_key)]
    /\ UNCHANGED <<disk, cdo_calls, futures, orch, stdout, rendered>>

SpecFile == InitFile /\ [][CallConstructFilename]_vars

(* process_mean_min_max *)
MaxLevels == 3

(* Vertical coordinate values: around each selection target a level on it, *)
(* and two levels equally far from it.                                     *)
LevelValues == {100, 500, 900, 1000, 1100, 25000, 50000, 75000, 100000, 125000}

LevelSeqs ==
    UNION {{s \in [1..n -> LevelValues] : StrictlyMonotonic(s)} : n \in 1..MaxLevels}

VerticalUnits == {"Pa", "hPa", "mbar", "m", "meters", "centimeters", "level", "1"}

(* 4-D atmosphere variables: the wind components on model levels and the   *)
(* air temperature                                                         *)
level_variable_dict ==
    [v \in {"ua", "va", "wa", "ta"} |->
        [unit |-> IF v = "ta" THEN "K" ELSE "ms^{-1}", dimensions |-> 4, realm |-> "atmos"]]

all_variable_info == [v \in DOMAIN variable_dict \cup DOMAIN level_variable_dict |->
    IF v \in DOMAIN variable_dict THEN variable_dict[v] ELSE level_variable_dict[v]]

(* the reduced fields at vertical position i: distinct per position *)
FieldAt(i) == [min |-> Num(100 * i - 10), mean |-> Num(100 * i), max |-> Num(100 * i + 10)]

Dataset(v, ndim, nsteps, zunits, levels) ==
    [names |-> reduced_names(v), ndim |-> ndim, nsteps |-> nsteps, zunits |-> zunits,
     levels |-> levels,
     field |-> [i \in 1..(IF levels = <<>> THEN 1 ELSE Len(levels)) |-> FieldAt(i)]]

InitValidate ==
    /\ PipelineIdle
    /\ \E v \in DOMAIN all_variable_info, ndim \in {2, 3, 4}, nsteps \in {0, 1, 2, 12} :
       \E zu \in (IF ndim < 4 THEN {"1"} ELSE VerticalUnits) :
       \* a vertical axis comes with a fourth dimension, and the full range of
       \* coordinates is drawn where the level selection is reached
       \E lv \in (IF ndim < 4 THEN {<<>>}
                  ELSE IF all_variable_info[v].dimensions < 4 \/ nsteps \notin {1, 12}
                       THEN {<<50000>>}
                  ELSE LevelSeqs) :
          call = [fn |-> "process_mean_min_max", pc |-> "call",
                  v_key |-> v, ds |-> Dataset(v, ndim, nsteps, zu, lv)]

CallProcessMeanMinMax ==
    /\ call.fn = "process_mean_min_max" /\ call.pc = "call"
    /\ LET out == process_mean_min_max(call.ds, call.v_key, all_variable_info[call.v_key])
       IN  /\ call' = [fn |-> call.fn, pc |-> "done", v_key |-> call.v_key,
                       ds |-> call.ds, out |-> out]
           /\ stdout' = IF out.kind = "exit"
                        THEN stdout \cup {<<"Error", out.msg, call.v_key>>}
                        ELSE stdout
    /\ UNCHANGED <<disk, cdo_calls, futures, orch, rendered>>

SpecValidate == InitValidate /\ [][CallProcessMeanMinMax]_vars

(* process_mean_min_max on one set of vertical levels stored in two        *)
(* orders: the field of a level goes with the level                        *)
Injective(s) == \A i \in DOMAIN s, j \in DOMAIN s : s[i] = s[j] => i = j

StoredLevels ==
    UNION {{s \in [1..n -> LevelValues] : Injective(s)} : n \in 1..MaxLevels}

FieldOf(level) == [min |-> Num(level - 10), mean |-> Num(level), max |-> Num(level + 10)]

LevelDataset(v, zunits, levels) ==
    [names |-> reduced_names(v), ndim |-> 4, nsteps |-> 12, zunits |-> zunits,
     levels |-> levels,
     field |-> [i \in DOMAIN levels |-> FieldOf(levels[i])]]

InitLevels ==
    /\ PipelineIdle
    /\ \E lv \in StoredLevels, zu \in {"Pa", "hPa", "m", "centimeters"} :
       \E pm \in {s \in [DOMAIN lv -> Range(lv)] : Injective(s)} :
          call = [fn |-> "sel", pc |-> "call", v_key |-> "ta", zunits |-> zu,
                  levels |-> lv, permuted |-> pm]

CallSel ==
    /\ call.fn = "sel" /\ call.pc = "call"
    /\ call' = [fn |-> call.fn, pc |-> "done", v_key |-> call.v_key, zunits |-> call.zunits,
                levels |-> call.levels, permuted |-> call.permuted,
                out |-> process_mean_min_max(
                           LevelDataset(call.v_key, call.zunits, call.levels),
                           call.v_key, all_variable_info[call.v_key]),
                out_permuted |-> process_mean_min_max(
                           LevelDataset(call.v_key, call.zunits, call.permuted),
                           call.v_key, all_variable_info[call.v_key])]
    /\ UNCHANGED <<disk, cdo_calls, futures, orch, stdout, rendered>>

SpecLevels == InitLevels /\ [][CallSel]_vars

(* compute_group_z_scores, on a table of one row *)
MaxModels == 3

(* a model's three cells: all NaN (no file), or min <= mean <= max *)
ScoreValues == {-3, 1, 2}
ModelCells ==
    {<<NaN, NaN, NaN>>} \cup
    {<<Num(c[1]), Num(c[2]), Num(c[3])>> :
        c \in {t \in ScoreValues \X ScoreValues \X ScoreValues : t[1] <= t[2] /\ t[2] <= t[3]}}

RECURSIVE Flatten(_)
Flatten(ss) == IF ss = <<>> THEN <<>> ELSE Head(ss) \o Flatten(Tail(ss))

(* the row of a table: unit, the models' cells, the median cells *)
TableRow(unit, model_cells) ==
    LET data == Flatten(model_cells)
    IN  <<unit>> \o data \o [g \in 1..3 |-> ensemble_median(subgroup(data, g - 1))]

negate_cell(c) == IF isnan(c) THEN c ELSE Num(0 - c.v)

(* the row with every value of statistic g (0: min, 1: mean, 2: max) negated *)
negate_group(row, g) ==
    [p \in DOMAIN row |->
        IF p > 1 /\ p <= Len(row) - 3 /\ (p - 2) % 3 = g THEN negate_cell(row[p]) ELSE row[p]]

InitScore ==
    /\ PipelineIdle
    /\ \E n \in 1..MaxModels : \E mc \in [1..n -> ModelCells] :
          /\ call = [fn |-> "compute_group_z_scores", pc |-> "call",
                     df |-> [r \in {"ps"} |-> TableRow(<<"$", "hPa", "$">>, mc)]]

CallComputeGroupZScores ==
    /\ call.fn = "compute_group_z_scores" /\ call.pc = "call"
    /\ call' = [fn |-> call.fn, pc |-> "done", df |-> call.df,
                out |-> compute_group_z_scores(call.df),
                negated |-> [g \in 0..2 |->
                    compute_group_z_scores([r \in DOMAIN call.df |->
                                               negate_group(call.df[r], g)])]]
    /\ UNCHANGED <<disk, cdo_calls, futures, orch, stdout, rendered>>

SpecScore == InitScore /\ [][CallComputeGroupZScores]_vars

-----------------------------------------------------------------------------
(* The pipeline: the archive, the worker pool, process_single_table step   *)
(* by step, and main.                                                      *)

MaxWorkers == 2   \* the size of the process pool
MaxFiles == 2     \* the source files present in the archive
MaxCached == 1    \* the source files whose artifacts an earlier run left behind

(* list(product(exp_dict.keys(), time_list, table_list)) *)
tasks ==
    [n \in 1..(Len(exp_dict_keys) * Len(time_list) * Len(table_list)) |->
        <<exp_dict_keys[(n - 1) \div (Len(time_list) * Len(table_list)) + 1],
          time_list[(((n - 1) \div Len(table_list)) % Len(time_list)) + 1],
          table_list[((n - 1) % Len(table_list)) + 1]>>]

task_rows(task) == table_vars(task[3])

source_file(task, v_key, m_key) ==
    construct_filename(task[1], v_key, m_key, model_dict[m_key], variable_dict[v_key], task[2])

SourcePaths ==
    UNION {{source_file(tasks[n], v, m) : v \in Range(task_rows(tasks[n])),
                                          m \in Range(model_keys)} : n \in DOMAIN tasks}

model_index(m_key) == CHOOSE k \in DOMAIN model_keys : model_keys[k] = m_key
time_key_of(path) == IF path.dir[6] = "climatology" THEN "mean" ELSE "time_series"

(* The reduced values (min, mean, max, in hundredths) the archive holds    *)
(* for variable v, model k and aggregation t.                              *)
raw_field(v, k, t) ==
    LET d == IF t = "mean" THEN 0 ELSE 1
    IN  CASE v = "ps" -> IF k = 1 THEN <<100000, 100500 + 200 * d, 101000>>
                         ELSE <<99000, 100700 + 200 * d, 102000>>
          [] v = "uo" -> IF k = 1 THEN <<-30, 2 + d, 45>> ELSE <<-25, 3 + d, 45>>
          [] OTHER    -> <<0, 35 + 10 * d, 100>>

(* A source file of the archive: as the variable table declares it         *)
(* (quality "good"), or with a wrong number of dimensions ("bad").         *)
source_dataset(path, quality) ==
    LET v == path.base[1]
        k == model_index(path.base[2])
        t == time_key_of(path)
        dims == variable_dict[v].dimensions
        f == raw_field(v, k, t)
        levels == IF dims = 4 THEN <<500, 1000, 2000>> ELSE <<>>
    IN  [names |-> {<<v>>},
         ndim |-> IF quality = "good" THEN dims ELSE IF dims = 4 THEN 3 ELSE dims + 1,
         nsteps |-> IF dims = 2 THEN 0 ELSE IF t = "mean" THEN 12 ELSE 1200,
         zunits |-> IF dims = 4 THEN "m" ELSE "1",
         levels |-> levels,
         field |-> [i \in 1..(IF levels = <<>> THEN 1 ELSE Len(levels)) |->
                      LET d == IF levels = <<>> THEN 0 ELSE i
                      IN  [min |-> Num(f[1] - d), mean |-> Num(f[2] + d), max |-> Num(f[3] + d)]]]

(* cdo timmean (mode "mean") or seltimestep 1189/1200 (mode "time_series") *)
(* followed by remapbil: the horizontal grid changes, the time axis is     *)
(* reduced.                                                                *)
regrid_output(ds, time_key) ==
    IF ds.nsteps = 0 THEN ds
    ELSE IF time_key = "mean" THEN [ds EXCEPT !.nsteps = 1]
    ELSE [ds EXCEPT !.nsteps = IF @ >= 1189 THEN (IF @ > 1200 THEN 1200 ELSE @) - 1188 ELSE 0]

(* -chname,v,v_<stat> followed by fldmean, fldmin or fldmax: the field is   *)
(* renamed and reduced to the one statistic                                *)
fld(ds, v_key, stat) ==
    [ds EXCEPT !.names = {IF n = <<v_key>> THEN <<v_key, stat>> ELSE n : n \in @},
               !.field = [l \in DOMAIN @ |-> [s \in {stat} |-> @[l][stat]]]]

(* cdo merge: the fields of the three files side by side *)
merge(a, b, c) ==
    [a EXCEPT !.names = a.names \cup b.names \cup c.names,
              !.field = [l \in DOMAIN @ |-> a.field[l] @@ b.field[l] @@ c.field[l]]]

(* the files a complete run derives from one source file *)
artifacts(src, quality) ==
    LET rg == regridded_name(src, GRID)
        v == src.base[1]
        r == regrid_output(source_dataset(src, quality), time_key_of(src))
    IN  (rg :> r) @@ (mean_name(rg) :> fld(r, v, "mean")) @@ (min_name(rg) :> fld(r, v, "min"))
        @@ (max_name(rg) :> fld(r, v, "max"))
        @@ (combined_name(rg) :> merge(fld(r, v, "mean"), fld(r, v, "min"), fld(r, v, "max")))

(* faulty variant: a task counts as done as soon as it was started *)
Finished_once_started(f) == f.state # "pending"

(* future.done() *)
Finished(f) == f.state \in {"done", "failed"}

(* The archive holds at most MaxFiles source files, all as declared or all *)
(* with a wrong number of dimensions; an earlier run left the regridded    *)
(* file, or every derived file, of at most MaxCached of them.              *)
Init ==
    /\ call = NoCall
    /\ \E S \in SUBSET SourcePaths :
          /\ Cardinality(S) <= MaxFiles
          /\ \E quality \in (IF S = {} THEN {"good"} ELSE {"good", "bad"}) :
             \E C \in SUBSET S :
                /\ Cardinality(C) <= MaxCached
                /\ \E stage \in [C -> {"regridded", "reduced"}] :
                      LET left(src) == IF stage[src] = "reduced"
                                       THEN DOMAIN artifacts(src, quality)
                                       ELSE {regridded_name(src, GRID)}
                          cached == UNION {left(src) : src \in C}
                      IN  disk = [p \in S \cup cached |->
                                    IF p \in S THEN source_dataset(p, quality)
                                    ELSE artifacts(CHOOSE src \in C : p \in left(src), quality)[p]]
    /\ cdo_calls = <<>>
    /\ futures = <<>>
    /\ orch = [pc |-> "main", i |-> 0, exit |-> "none"]
    /\ stdout = {}
    /\ rendered = {}


(* ---- main, up to the poll loop ---- *)

(* executor.submit for every task: all futures pending *)
Submit ==
    /\ orch.pc = "main"
    /\ futures' = [n \in DOMAIN tasks |->
                     [task |-> tasks[n], state |-> "pending", exception |-> "",
                      pc |-> "queued", vi |-> 0, mi |-> 0, table |-> <<>>]]
    /\ orch' = [orch EXCEPT !.pc = "poll"]
    /\ UNCHANGED <<disk, cdo_calls, stdout, rendered, call>>

(* ---- the worker pool ---- *)

Running(i) == i \in DOMAIN futures /\ futures[i].state = "running"

(* the task's current variable, model and files *)
v_key_of(f) == task_rows(f.task)[f.vi]
m_key_of(f) == model_keys[f.mi]
filename_of(f) == source_file(f.task, v_key_of(f), m_key_of(f))
regridded_file_of(f) == regridded_name(filename_of(f), GRID)
gm_file_of(f) == combined_name(regridded_file_of(f))

(* faulty variant: a task that raised goes on to draw the table it has *)
failed_renders(f, exc) == [f EXCEPT !.pc = "draw"]

(* faulty variant: a task that raised is queued again *)
failed_requeued(f, exc) == [f EXCEPT !.state = "pending", !.pc = "queued"]

(* an exception leaves process_single_table: the future stores it *)
failed(f, exc) == [f EXCEPT !.state = "failed", !.exception = exc, !.pc = "end"]

(* the head of the loop over the variables: the unit of row vi is set and  *)
(* the loop over the models begins                                         *)
begin_row(f, vi) ==
    LET v == task_rows(f.task)[vi]
    IN  [f EXCEPT !.table[v][1] = unit_dict(variable_dict[v]),
                  !.vi = vi, !.mi = 1, !.pc = "locate"]

(* the medians of row vi, after the loop over the models *)
with_median(f) ==
    LET v == task_rows(f.task)[f.vi]
        row == f.table[v]
        med(g) == ensemble_median(model_values(row, g))
    IN  [f EXCEPT !.table[v] = set_cells(row, median_group, med(0), med(1), med(2))]

(* the end of one pass of the loop over the models: the next model; after  *)
(* the last model the medians of the row and the next row; after the last  *)
(* row the table is ready to be drawn                                      *)
next_model(f) ==
    IF f.mi < NumModels THEN [f EXCEPT !.mi = @ + 1, !.pc = "locate"]
    ELSE IF f.vi < Len(task_rows(f.task)) THEN begin_row(with_median(f), f.vi + 1)
    ELSE [with_median(f) EXCEPT !.pc = "draw"]

(* The passes of the loop over the models that touch nothing but the      *)
(* task's own table: construct_filename and check_file_exists for model    *)
(* after model; a missing file ends the pass with the cells untouched; the *)
(* first file that exists is handed to regrid_file.                        *)
RECURSIVE locate(_)
locate(f) ==
    LET pass(g) ==
            IF g.pc # "locate" THEN g
            ELSE IF Raised(filename_of(g)) THEN failed(g, "Exception")
            ELSE IF check_file_exists(filename_of(g)) THEN [g EXCEPT !.pc = "regrid"]
            ELSE locate(next_model(g))
    IN  CHOOSE r \in {pass(g) : g \in {f}} : TRUE      \* pass(f), f taken once

(* A free worker takes the oldest pending task and enters                  *)
(* process_single_table: the empty table is created and the loops run up   *)
(* to the first file that exists.                                          *)
Start(i) ==
    /\ i \in DOMAIN futures /\ futures[i].state = "pending"
    /\ \A j \in 1..(i - 1) : futures[j].state # "pending"
    /\ Cardinality({j \in DOMAIN futures : futures[j].state = "running"}) < MaxWorkers
    /\ futures' = [futures EXCEPT ![i] =
                     locate(begin_row([futures[i] EXCEPT !.state = "running",
                                    !.table = overview_table(futures[i].task[3])], 1))]
    /\ UNCHANGED <<disk, cdo_calls, orch, stdout, rendered, call>>

invoked(path) == IF path \in DOMAIN cdo_calls
                 THEN [cdo_calls EXCEPT ![path] = @ + 1]
                 ELSE cdo_calls @@ (path :> 1)

written(path, ds) == IF path \in DOMAIN disk
                     THEN [disk EXCEPT ![path] = ds]
                     ELSE disk @@ (path :> ds)

(* ---- process_single_table ---- *)

(* faulty variant: the existence test always finds the output missing *)
output_missing_always(path) == TRUE

(* not os.path.exists(path) *)
output_missing(path) == path \notin DOMAIN disk

(* regrid_file, the existence test of the regridded file *)
RegridCheck(i) ==
    /\ Running(i) /\ futures[i].pc = "regrid"
    /\ LET f == futures[i]
       IN  futures' = [futures EXCEPT ![i] =
               [f EXCEPT !.pc = IF output_missing(regridded_file_of(f))
                                THEN "remap" ELSE "reduce"]]
    /\ UNCHANGED <<disk, cdo_calls, orch, stdout, rendered, call>>

(* regrid_file, cdo.remapbil: the regridded file is written, or the tool   *)
(* fails: the error is printed and sys.exit() is called                    *)
Remap(i) ==
    /\ Running(i) /\ futures[i].pc = "remap"
    /\ LET f == futures[i]
           out == regrid_output(disk[filename_of(f)], f.task[2])
       IN  /\ cdo_calls' = invoked(regridded_file_of(f))
           /\ \E ok \in BOOLEAN :
                 IF ok /\ (disk[filename_of(f)].nsteps = 0 \/ out.nsteps > 0)
                 THEN /\ disk' = written(regridded_file_of(f), out)
                      /\ futures' = [futures EXCEPT ![i] = [f EXCEPT !.pc = "reduce"]]
                      /\ UNCHANGED stdout
                 ELSE /\ stdout' = stdout \cup {<<"Error regridding", m_key_of(f), v_key_of(f)>>}
                      /\ futures' = [futures EXCEPT ![i] = failed(f, "SystemExit")]
                      /\ UNCHANGED disk
    /\ UNCHANGED <<orch, rendered, call>>

(* faulty variant: the merge comes before its inputs *)
reduction_order_merge_first == <<"merge", "fldmean", "fldmin", "fldmax">>

(* the external reductions of calculate_global_mean_min_max, in order *)
reduction_order == <<"fldmean", "fldmin", "fldmax", "merge">>

after(pc) ==
    LET n == CHOOSE k \in DOMAIN reduction_order : reduction_order[k] = pc
    IN  IF n < Len(reduction_order) THEN reduction_order[n + 1] ELSE "validate"

(* calculate_global_mean_min_max once the combined file was found missing: *)
(* the reductions in their order                                           *)
first_reduction == reduction_order[1]

(* calculate_global_mean_min_max, the existence test of the combined file *)
ReduceCheck(i) ==
    /\ Running(i) /\ futures[i].pc = "reduce"
    /\ LET f == futures[i]
       IN  futures' = [futures EXCEPT ![i] =
               [f EXCEPT !.pc = IF output_missing(gm_file_of(f))
                                THEN first_reduction ELSE "validate"]]
    /\ UNCHANGED <<disk, cdo_calls, orch, stdout, rendered, call>>

(* One call of the external tool by task i at position pc: it writes the   *)
(* output, result, computed from its input files, or it raises (also when  *)
(* an input is missing) and the exception, a CDOException, which is an     *)
(* Exception, leaves the task.                                             *)
CdoStep(i, pc, inputs, output, result, next) ==
    /\ Running(i) /\ futures[i].pc = pc
    /\ LET f == futures[i]
       IN  /\ cdo_calls' = invoked(output)
           /\ \E ok \in BOOLEAN :
                 IF ok /\ Range(inputs) \subseteq DOMAIN disk
                 THEN /\ disk' = written(output, result)
                      /\ futures' = [futures EXCEPT ![i] = [f EXCEPT !.pc = next]]
                 ELSE /\ futures' = [futures EXCEPT ![i] = failed(f, "CDOException")]
                      /\ UNCHANGED disk
    /\ UNCHANGED <<orch, stdout, rendered, call>>

(* cdo.fldmean, cdo.fldmin, cdo.fldmax of the regridded file *)
FldMean(i) ==
    /\ Running(i)
    /\ CdoStep(i, "fldmean", <<regridded_file_of(futures[i])>>,
               mean_name(regridded_file_of(futures[i])),
               fld(disk[regridded_file_of(futures[i])], v_key_of(futures[i]), "mean"), after("fldmean"))

FldMin(i) ==
    /\ Running(i)
    /\ CdoStep(i, "fldmin", <<regridded_file_of(futures[i])>>,
               min_name(regridded_file_of(futures[i])),
               fld(disk[regridded_file_of(futures[i])], v_key_of(futures[i]), "min"), after("fldmin"))

FldMax(i) ==
    /\ Running(i)
    /\ CdoStep(i, "fldmax", <<regridded_file_of(futures[i])>>,
               max_name(regridded_file_of(futures[i])),
               fld(disk[regridded_file_of(futures[i])], v_key_of(futures[i]), "max"), after("fldmax"))

(* cdo.merge of the three files into the combined file *)
Merge(i) ==
    /\ Running(i)
    /\ CdoStep(i, "merge",
               <<mean_name(regridded_file_of(futures[i])), min_name(regridded_file_of(futures[i])),
                 max_name(regridded_file_of(futures[i]))>>,
               gm_file_of(futures[i]),
               merge(disk[mean_name(regridded_file_of(futures[i]))],
                     disk[min_name(regridded_file_of(futures[i]))],
                     disk[max_name(regridded_file_of(futures[i]))]), after("merge"))

(* faulty variant: the row keeps the unit it was given at the head of the  *)
(* loop                                                                    *)
converted_unit_kept(row, v_key) == row

(* if v_key in conversion_factors: overview_table.loc[v_key, "unit"] = unit *)
converted_unit(row, v_key) ==
    IF v_key \in DOMAIN conversion_factors
    THEN [row EXCEPT ![1] = conversion_factors[v_key].unit]
    ELSE row

(* process_mean_min_max on the combined file, the unit conversion and the  *)
(* three cells of the model                                                *)
Validate(i) ==
    /\ Running(i) /\ futures[i].pc = "validate"
    /\ \E f \in {futures[i]} : \E v \in {v_key_of(f)} : \E ds \in {disk[gm_file_of(f)]} :
       \E out \in {process_mean_min_max(ds, v, variable_dict[v])} :
          LET row == converted_unit(f.table[v], v)
          IN  /\ futures' = [futures EXCEPT ![i] =
                    IF out.kind = "exit" THEN failed(f, "SystemExit")
                    ELSE IF out.kind = "raise" THEN failed(f, "Exception")
                    ELSE locate(next_model([f EXCEPT !.table[v] =
                            set_cells(row, f.mi, scale(out.min, v), scale(out.mean, v),
                                      scale(out.max, v))]))]
              /\ stdout' = IF out.kind = "exit" THEN stdout \cup {<<"Error", out.msg, v>>}
                           ELSE stdout
    /\ UNCHANGED <<disk, cdo_calls, orch, rendered, call>>

(* draw_table: the scores are computed and the figure is saved; the task   *)
(* returns                                                                 *)
Draw(i) ==
    /\ Running(i) /\ futures[i].pc = "draw"
    /\ LET f == futures[i]
       IN  /\ rendered' = rendered \cup
                 {[title |-> <<f.task[1], f.task[3], f.task[2]>>, table |-> f.table,
                   z_scores |-> compute_group_z_scores(f.table)]}
           /\ futures' = [futures EXCEPT ![i] = [f EXCEPT !.state = "done", !.pc = "end"]]
    /\ UNCHANGED <<disk, cdo_calls, orch, stdout, call>>

(* ---- main, after the poll loop ---- *)

(* while not all(f.done() for f in futures) ends *)
PollExit ==
    /\ orch.pc = "poll"
    /\ \A j \in DOMAIN futures : Finished(futures[j])
    /\ orch' = [orch EXCEPT !.pc = "results", !.i = 1]
    /\ UNCHANGED <<disk, cdo_calls, futures, stdout, rendered, call>>

(* future.result(): an Exception is caught and printed; a SystemExit is    *)
(* not an Exception and leaves main                                        *)
Result ==
    /\ orch.pc = "results" /\ orch.i <= Len(futures)
    /\ LET f == futures[orch.i]
       IN  IF f.state = "failed" /\ f.exception = "SystemExit"
           THEN /\ orch' = [orch EXCEPT !.pc = "exited", !.exit = "SystemExit"]
                /\ UNCHANGED stdout
           ELSE /\ orch' = [orch EXCEPT !.i = @ + 1]
                /\ stdout' = IF f.state = "failed"
                             THEN stdout \cup {<<"Task generated an exception", f.exception, "">>}
                             ELSE stdout
    /\ UNCHANGED <<disk, cdo_calls, futures, rendered, call>>

(* main returns *)
MainReturn ==
    /\ orch.pc = "results" /\ orch.i > Len(futures)
    /\ orch' = [orch EXCEPT !.pc = "returned", !.exit = "0"]
    /\ UNCHANGED <<disk, cdo_calls, futures, stdout, rendered, call>>

(* The exit status of the process once main has ended.  sys.exit() is      *)
(* called without an argument: the SystemExit carries the code None, which *)
(* the interpreter turns into status 0, the status of a normal return.     *)
exit_status(exit) ==
    CASE exit = "SystemExit" -> 0
      [] exit = "0" -> 0
      [] OTHER -> -1        \* main has not ended

Next ==
    \/ Submit
    \/ \E i \in DOMAIN futures : Start(i)
    \/ \E i \in DOMAIN futures : RegridCheck(i)
    \/ \E i \in DOMAIN futures : Remap(i)
    \/ \E i \in DOMAIN futures : ReduceCheck(i)
    \/ \E i \in DOMAIN futures : FldMean(i)
    \/ \E i \in DOMAIN futures : FldMin(i)
    \/ \E i \in DOMAIN futures : FldMax(i)
    \/ \E i \in DOMAIN futures : Merge(i)
    \/ \E i \in DOMAIN futures : Validate(i)
    \/ \E i \in DOMAIN futures : Draw(i)
    \/ PollExit
    \/ Result
    \/ MainReturn

Spec == Init /\ [][Next]_vars

(* The steps of one task, which a worker process of the pool runs, and the *)
(* steps of main.  The operating system schedules every process, and an    *)
(* external tool call returns or raises: a step that stays possible is     *)
(* taken.                                                                  *)
Worker(i) ==
    \/ Start(i) \/ RegridCheck(i) \/ Remap(i) \/ ReduceCheck(i)
    \/ FldMean(i) \/ FldMin(i) \/ FldMax(i) \/ Merge(i)
    \/ Validate(i) \/ Draw(i)

Main == Submit \/ PollExit \/ Result \/ MainReturn

(* a first run: the archive holds no derived file yet *)
InitFresh == Init /\ DOMAIN disk \subseteq SourcePaths

Pool == \E i \in DOMAIN tasks : Worker(i)

FairSpec ==
    /\ InitFresh /\ [][Next]_vars
    /\ WF_vars(Pool)
    /\ WF_vars(Main)

-----------------------------------------------------------------------------
(* Claims about the pure functions                                         *)

FileCallDone == call.fn = "construct_filename" /\ call.pc = "done"
ValidateCallDone == call.fn = "process_mean_min_max" /\ call.pc = "done"

(* C2: for every (experiment, variable, model, mode) construct_filename    *)
(* returns root/family/model/experiment/version/<dir>/                     *)
(* <var>_<model>_<experiment>_<version> followed by ".<mode>.nc" when the  *)
(* variable's dimensionality is greater than 2 and by ".nc" alone when it  *)
(* is 2 or less; <dir> is "climatology" for mode "mean" and "time_series"  *)
(* for mode "time_series"; the version tag of the directory segment is the *)
(* one of the file name.                                                   *)
C2_ConstructFilename ==
    FileCallDone =>
        /\ ~Raised(call.out)
        /\ call.out.dir = <<DBDIR, model_dict[call.m_key].family, call.m_key, call.e_key,
                            VERSION,
                            IF call.time_key = "mean" THEN "climatology" ELSE "time_series">>
        /\ call.out.base = <<call.v_key, call.m_key, call.e_key, VERSION>>
        /\ (variable_dict[call.v_key].dimensions > 2
               => call.out.ext = <<call.time_key, "nc">>)
        /\ (variable_dict[call.v_key].dimensions <= 2 => call.out.ext = <<"nc">>)
        /\ call.out.dir[5] = call.out.base[4]

C2_Witness ==
    /\ FileCallDone
    /\ call.v_key = "sftlf" /\ call.time_key = "time_series"
    /\ call.out.ext = <<"nc">> /\ call.out.dir[6] = "time_series"

DeclaredDims == all_variable_info[call.v_key].dimensions
DimsViolated == call.ds.ndim # DeclaredDims
StepsViolated == DeclaredDims > 2 /\ call.ds.nsteps \notin {1, 12}
(* the fields of the variable are in the file and, for a time-varying      *)
(* variable, a dimension with axis "T" exists                              *)
ChecksApply == <<call.v_key, "mean">> \in call.ds.names /\ (DeclaredDims > 2 => call.ds.nsteps > 0)

(* C5: process_mean_min_max returns three scalars only if the mean field's *)
(* number of dimensions equals the declared dimensionality and, for a      *)
(* variable of dimensionality greater than 2, the time axis has 1 or 12    *)
(* steps; on either violation nothing is returned, a diagnostic is printed *)
(* and the execution is ended by sys.exit; the dimensionality check comes  *)
(* before the timestep check.                                              *)
C5_ValidatorFatal ==
    ValidateCallDone =>
        /\ call.out.kind = "return" => (~DimsViolated /\ ~StepsViolated)
        /\ (ChecksApply /\ (DimsViolated \/ StepsViolated)) =>
              /\ call.out.kind = "exit"
              /\ <<"Error", call.out.msg, call.v_key>> \in stdout
        /\ (ChecksApply /\ DimsViolated) => call.out.msg = "dimensions"
        /\ (ChecksApply /\ ~DimsViolated /\ StepsViolated) => call.out.msg = "timesteps"

C5_Witness ==
    /\ ValidateCallDone
    /\ ChecksApply /\ DimsViolated /\ call.ds.nsteps = 2
    /\ call.out = Exit("dimensions")
    /\ stdout = {<<"Error", "dimensions", call.v_key>>}

IsNearest(levels, i, target) ==
    /\ i \in DOMAIN levels
    /\ \A j \in DOMAIN levels : Abs(levels[i] - target) <= Abs(levels[j] - target)

(* the call reaches the level selection of a 4-D variable *)
LevelSelectionReached ==
    /\ ValidateCallDone /\ DeclaredDims = 4
    /\ ChecksApply /\ ~DimsViolated /\ ~StepsViolated
    /\ call.ds.levels # <<>> /\ call.ds.zunits # ""

(* C6: for a 4-D variable the level is selected by the vertical axis unit: *)
(* "Pa" the level nearest 50000, "hPa" or "mbar" nearest 500, "m" or       *)
(* "meters" nearest 1000, "centimeters" nearest 100000; only when the unit *)
(* is none of these and the variable is ua, va or wa the first level is    *)
(* taken; any other combination is fatal.  A ua/va/wa field with a         *)
(* recognized unit is selected by unit, and for a variable of              *)
(* dimensionality 3 or less no level is selected.                          *)
C6_LevelSelection ==
    /\ LevelSelectionReached =>
        LET u == call.ds.zunits
            lv == call.ds.levels
            out == call.out
            recognized == u \in {"Pa", "hPa", "mbar", "m", "meters", "centimeters"}
            selected(target) ==
                /\ out.kind = "return"
                /\ IsNearest(lv, out.level, target)
                /\ <<out.min, out.mean, out.max>> =
                      <<call.ds.field[out.level].min, call.ds.field[out.level].mean,
                        call.ds.field[out.level].max>>
        IN  /\ u = "Pa" => selected(50000)
            /\ u \in {"hPa", "mbar"} => selected(500)
            /\ u \in {"m", "meters"} => selected(1000)
            /\ u = "centimeters" => selected(100000)
            /\ (~recognized /\ call.v_key \in {"ua", "va", "wa"}) =>
                  (out.kind = "return" /\ out.level = 1 /\ out.mean = call.ds.field[1].mean)
            /\ (~recognized /\ call.v_key \notin {"ua", "va", "wa"}) =>
                  (out = Exit("vertical units")
                   /\ <<"Error", "vertical units", call.v_key>> \in stdout)
    /\ (ValidateCallDone /\ DeclaredDims <= 3 /\ call.out.kind = "return") =>
          (call.out.level = 0 /\ call.out.mean = call.ds.field[1].mean)

C6_Witness ==
    /\ LevelSelectionReached
    /\ call.v_key = "ua" /\ call.ds.zunits = "Pa"
    /\ call.ds.levels = <<100000, 50000, 25000>>
    /\ call.out.kind = "return" /\ call.out.level = 2 /\ call.out.mean = FieldAt(2).mean


ScoreCallDone == call.fn = "compute_group_z_scores" /\ call.pc = "done"

(* the number of models of a row, the cell of model k (1..) and statistic  *)
(* g (0: min, 1: mean, 2: max) in it, and that cell's score                *)
NModelsOf(row) == (Len(row) - 4) \div 3
CellOf(row, k, g) == row[1 + 3 * (k - 1) + g + 1]
ScoreOf(scores, k, g) == scores[3 * (k - 1) + g + 1]
IsZeroScore(z) == ~z.nan /\ z.num2 = 0 /\ z.guard

(* C8: the per-model columns (unit and median columns stripped) are        *)
(* grouped by statistic, column position modulo 3, and in every row and    *)
(* group in which all per-model values are equal the score of every cell   *)
(* that has a value is exactly 0, the divisor being 1. A group with one    *)
(* value is such a group.                                                  *)
C8_ZeroSpread ==
    ScoreCallDone =>
        \A r \in DOMAIN call.df : \A g \in 0..2 :
            LET row == call.df[r]
                n == NModelsOf(row)
                present == {k \in 1..n : ~isnan(CellOf(row, k, g))}
                equal == \A k \in present, l \in present : CellOf(row, k, g) = CellOf(row, l, g)
            IN  /\ Len(call.out[r]) = 3 * n
                /\ equal => \A k \in present : IsZeroScore(ScoreOf(call.out[r], k, g))

(* the part of C8 the code satisfies: a group of two or more equal values  *)
(* has standard deviation 0, divisor 1 and every score exactly 0           *)
C8_ZeroSpreadOfTwo ==
    ScoreCallDone =>
        \A r \in DOMAIN call.df : \A g \in 0..2 :
            LET row == call.df[r]
                n == NModelsOf(row)
                present == {k \in 1..n : ~isnan(CellOf(row, k, g))}
                equal == \A k \in present, l \in present : CellOf(row, k, g) = CellOf(row, l, g)
            IN  /\ Len(call.out[r]) = 3 * n
                /\ (equal /\ Cardinality(present) >= 2) =>
                      \A k \in present : IsZeroScore(ScoreOf(call.out[r], k, g))

(* a group whose only value gets the score NaN *)
C8_SingleValueIsNaN ==
    ScoreCallDone =>
        \A r \in DOMAIN call.df : \A g \in 0..2 :
            LET row == call.df[r]
                n == NModelsOf(row)
                present == {k \in 1..n : ~isnan(CellOf(row, k, g))}
            IN  Cardinality(present) = 1 =>
                    \A k \in present : ScoreOf(call.out[r], k, g).nan

(* C10: every outlier score is non-negative (a score is a number only for  *)
(* a cell that has a value, in a group of at least two values), and the    *)
(* scores are unchanged when every value of a (row, statistic) group is    *)
(* negated.                                                                *)
C10_NonNegativeSymmetric ==
    ScoreCallDone =>
        \A r \in DOMAIN call.df :
            /\ \A p \in DOMAIN call.out[r] :
                  LET z == call.out[r][p]
                  IN  z.nan \/ (z.num2 >= 0 /\ z.vard > 0 /\ (z.guard \/ z.varn > 0))
            /\ \A g \in 0..2 : call.negated[g][r] = call.out[r]

C10_Witness ==
    /\ ScoreCallDone
    /\ LET row == call.df["ps"]
       IN  /\ NModelsOf(row) = 3
           /\ <<CellOf(row, 1, 1), CellOf(row, 2, 1), CellOf(row, 3, 1)>>
                 = <<Num(-3), Num(1), Num(2)>>
           /\ ScoreOf(call.out["ps"], 1, 1).num2 = 8
           /\ ScoreOf(call.out["ps"], 3, 1).num2 = 2
           /\ ScoreOf(call.negated[1]["ps"], 1, 1).num2 = 8

-----------------------------------------------------------------------------
(* Claims about the pipeline                                               *)

Started == {i \in DOMAIN futures : futures[i].state # "pending"}

(* the (row, model) pairs of a task, their source files and cells *)
Pairs(f) == (1..Len(task_rows(f.task))) \X (1..NumModels)
PairIndex(pr) == (pr[1] - 1) * NumModels + pr[2]
SourceOf(f, pr) == source_file(f.task, task_rows(f.task)[pr[1]], model_keys[pr[2]])
RowOf(f, vi) == f.table[task_rows(f.task)[vi]]
CellsOf(f, pr) == {CellOf(RowOf(f, pr[1]), pr[2], g) : g \in 0..2}
OnDisk(path) == path \in DOMAIN disk

(* the pairs whose pass of the model loop has ended, and the rows whose    *)
(* model loop has ended                                                    *)
AllPassed(f) == f.state = "done" \/ f.pc = "draw"
Passed(f) == {pr \in Pairs(f) : AllPassed(f) \/ PairIndex(pr) < PairIndex(<<f.vi, f.mi>>)}
RowsDone(f) == {vi \in 1..Len(task_rows(f.task)) : AllPassed(f) \/ vi < f.vi}

(* the task is inside regrid_file, calculate_global_mean_min_max or        *)
(* process_mean_min_max for its current pair                               *)
AtFile(f) ==
    f.pc \in {"regrid", "remap", "reduce", "fldmean", "fldmin", "fldmax", "merge", "validate"}

Calls(path) == IF path \in DOMAIN cdo_calls THEN cdo_calls[path] ELSE 0
CallsAfter(path) == IF path \in DOMAIN cdo_calls' THEN cdo_calls'[path] ELSE 0
DerivedPaths(src) ==
    LET rg == regridded_name(src, GRID)
    IN  {rg, mean_name(rg), min_name(rg), max_name(rg), combined_name(rg)}

(* C1: when the source file of a (variable, model) pair does not exist,    *)
(* the task runs neither the regridder, the reducer nor the validator for  *)
(* the pair (no external tool is called on a path that no existing source  *)
(* file derives), the model's three cells of the row stay missing and the  *)
(* loop goes on; a task fails, and the process is ended, only while a file *)
(* that exists is being processed.                                         *)
C1_MissingInputSkipped ==
    /\ \A i \in Started :
          LET f == futures[i]
          IN  /\ \A pr \in Passed(f) :
                    ~OnDisk(SourceOf(f, pr)) => \A c \in CellsOf(f, pr) : isnan(c)
              /\ AtFile(f) => OnDisk(SourceOf(f, <<f.vi, f.mi>>))
              /\ f.state = "failed" => OnDisk(SourceOf(f, <<f.vi, f.mi>>))
              /\ (\A pr \in Pairs(f) : ~OnDisk(SourceOf(f, pr))) => AllPassed(f)
    /\ \A p \in DOMAIN cdo_calls :
          \E src \in SourcePaths : OnDisk(src) /\ p \in DerivedPaths(src)
    /\ orch.pc = "exited" => \E i \in Started : futures[i].state = "failed"

(* a finished table in which the first model's file of a row was missing   *)
(* and the second model's file was processed                               *)
C1_Witness ==
    \E i \in Started :
        LET f == futures[i]
        IN  /\ f.state = "done"
            /\ ~OnDisk(SourceOf(f, <<1, 1>>)) /\ OnDisk(SourceOf(f, <<1, 2>>))
            /\ \A c \in CellsOf(f, <<1, 1>>) : isnan(c)
            /\ \A c \in CellsOf(f, <<1, 2>>) : ~isnan(c)

RegriddedPaths == {regridded_name(src, GRID) : src \in SourcePaths}

(* the tasks that process a file whose regridded file is the given path *)
Sharers(path) ==
    {n \in DOMAIN tasks :
        \E v \in Range(task_rows(tasks[n])), m \in Range(model_keys) :
            /\ OnDisk(source_file(tasks[n], v, m))
            /\ regridded_name(source_file(tasks[n], v, m), GRID) = path}

(* the step is a step of task i *)
Acts(i) == i \in DOMAIN futures /\ futures'[i] # futures[i]

(* C3 as claimed: the external regridding tool is invoked at most once for *)
(* each regridded output path.                                             *)
C3_AtMostOncePerPath == \A p \in RegriddedPaths : Calls(p) <= 1

(* C3, amended: a call of regrid_file whose output exists invokes nothing, *)
(* changes no file and goes on with the same output path; the regridding   *)
(* tool is invoked only by a call that found the output missing, once per  *)
(* call, so at most once for every task that derives the path; and a path  *)
(* that was present at the start is never regridded.                       *)
C3_RegridMemo ==
    [][
        /\ \A i \in DOMAIN futures :
             (futures[i].pc = "regrid" /\ Acts(i)) =>
                /\ cdo_calls' = cdo_calls /\ disk' = disk
                /\ <<futures'[i].vi, futures'[i].mi>> = <<futures[i].vi, futures[i].mi>>
                /\ futures'[i].pc = IF OnDisk(regridded_file_of(futures[i]))
                                    THEN "reduce" ELSE "remap"
        /\ cdo_calls' # cdo_calls =>
             \E j \in DOMAIN futures :
                LET p == regridded_file_of(futures[j])
                IN  /\ Acts(j) /\ AtFile(futures[j])
                    /\ IF futures[j].pc = "remap"
                       THEN /\ CallsAfter(p) = Calls(p) + 1
                            /\ \A q \in RegriddedPaths \ {p} : CallsAfter(q) = Calls(q)
                            /\ CallsAfter(p) <= Cardinality(Sharers(p))
                            /\ ~(OnDisk(p) /\ Calls(p) = 0)
                       ELSE \A q \in RegriddedPaths : CallsAfter(q) = Calls(q)
    ]_vars

(* two finished tasks went through regrid_file for one path that the tool  *)
(* produced once: the later call found it                                  *)
C3_Witness ==
    \E p \in RegriddedPaths :
        /\ Calls(p) = 1 /\ OnDisk(p)
        /\ Cardinality(Sharers(p)) = 2
        /\ \A n \in Sharers(p) : n \in DOMAIN futures /\ futures[n].state = "done"

(* the files calculate_global_mean_min_max derives for the task's pair *)
ReducedFiles(f) ==
    <<mean_name(regridded_file_of(f)), min_name(regridded_file_of(f)),
      max_name(regridded_file_of(f))>>

(* C4: when the combined file is absent calculate_global_mean_min_max      *)
(* produces the mean, the min and the max file, the field renamed to       *)
(* <var>_mean, <var>_min, <var>_max, and only then merges them into the    *)
(* combined file; when the combined file is present it calls no external   *)
(* operation, changes no file and goes on with the same combined path.     *)
C4_Reducer ==
    [][\A i \in DOMAIN futures :
          LET f == futures[i]
              g == futures'[i]
              v == v_key_of(f)
              went(to) == g.pc = to \/ (g.state = "failed" /\ g.exception = "CDOException")
              made(n, stat) ==
                  /\ CallsAfter(ReducedFiles(f)[n]) = Calls(ReducedFiles(f)[n]) + 1
                  /\ g.pc # "end" =>
                        /\ disk'[ReducedFiles(f)[n]].names = {<<v, stat>>}
                        /\ \A l \in DOMAIN disk'[ReducedFiles(f)[n]].field :
                              disk'[ReducedFiles(f)[n]].field[l] =
                                  [s \in {stat} |-> disk[regridded_file_of(f)].field[l][stat]]
          IN  (Acts(i) /\ AtFile(f)) =>
                CASE f.pc = "reduce" ->
                        /\ cdo_calls' = cdo_calls /\ disk' = disk
                        /\ <<g.vi, g.mi>> = <<f.vi, f.mi>>
                        /\ g.pc = IF OnDisk(gm_file_of(f)) THEN "validate" ELSE "fldmean"
                  [] f.pc = "fldmean" -> went("fldmin") /\ made(1, "mean")
                  [] f.pc = "fldmin" -> went("fldmax") /\ made(2, "min")
                  [] f.pc = "fldmax" -> went("merge") /\ made(3, "max")
                  [] f.pc = "merge" ->
                        /\ went("validate")
                        /\ \A n \in 1..3 : Calls(ReducedFiles(f)[n]) >= 1
                        /\ CallsAfter(gm_file_of(f)) = Calls(gm_file_of(f)) + 1
                        /\ g.pc = "validate" =>
                              /\ \A n \in 1..3 : OnDisk(ReducedFiles(f)[n])
                              /\ disk'[gm_file_of(f)].names = reduced_names(v)
                              /\ \A l \in DOMAIN disk'[gm_file_of(f)].field :
                                    disk'[gm_file_of(f)].field[l] =
                                        [mean |-> disk[ReducedFiles(f)[1]].field[l].mean,
                                         min |-> disk[ReducedFiles(f)[2]].field[l].min,
                                         max |-> disk[ReducedFiles(f)[3]].field[l].max]
                  [] OTHER -> CallsAfter(gm_file_of(f)) = Calls(gm_file_of(f))
      ]_vars

(* one task reduced a file and merged the three results; a second task     *)
(* found the combined file and called nothing                              *)
C4_Witness ==
    \E p \in RegriddedPaths :
        /\ Cardinality(Sharers(p)) = 2
        /\ \A n \in Sharers(p) : n \in DOMAIN futures /\ futures[n].state = "done"
        /\ \A q \in {mean_name(p), min_name(p), max_name(p), combined_name(p)} :
              Calls(q) = 1 /\ OnDisk(q)

(* the values (hundredths) of statistic g that the models have in a row,   *)
(* and the median cell of the statistic                                    *)
PresentModels(row, g) == {k \in 1..NumModels : ~isnan(CellOf(row, k, g))}
MedianCell(row, g) == CellOf(row, NumModels + 1, g)

(* m2 is twice the median of the values the models of ks have: the sum of  *)
(* the lower and the upper middle value                                    *)
IsTwiceMedian(m2, row, g, ks) ==
    LET val(k) == CellOf(row, k, g).v
        n == Cardinality(ks)
        below(k) == Cardinality({l \in ks : val(l) < val(k)})
        above(k) == Cardinality({l \in ks : val(l) > val(k)})
    IN  \E lo \in ks, hi \in ks :
            /\ below(lo) <= (n - 1) \div 2 /\ above(lo) <= n \div 2
            /\ below(hi) <= n \div 2 /\ above(hi) <= (n - 1) \div 2
            /\ m2 = val(lo) + val(hi)

(* r (hundredths) is x = m2 / 2 rounded to one decimal place *)
IsRoundedToTenth(r, m2) == r % 10 = 0 /\ Abs(2 * r - m2) <= 10

(* C7: in every row and for every statistic the median cell is written     *)
(* only after the loop over the models has ended for the row (until then   *)
(* it is missing); it is then missing when every model value of the        *)
(* statistic is missing, and otherwise the median of the models' values    *)
(* that are not missing, as converted, rounded to one decimal place.       *)
C7_MedianColumn ==
    \A i \in Started :
        LET f == futures[i]
        IN  \A vi \in 1..Len(task_rows(f.task)) : \A g \in 0..2 :
                LET row == RowOf(f, vi)
                    med == MedianCell(row, g)
                    ks == PresentModels(row, g)
                IN  IF vi \in RowsDone(f)
                    THEN IF ks = {} THEN isnan(med)
                         ELSE /\ ~isnan(med)
                              /\ \E m2 \in {CellOf(row, k, g).v + CellOf(row, l, g).v :
                                               k \in ks, l \in ks} :
                                    /\ IsTwiceMedian(m2, row, g, ks)
                                    /\ IsRoundedToTenth(med.v, m2)
                    ELSE isnan(med)

(* a finished table with a row of two models whose median is rounded up    *)
(* and a row without any value                                             *)
C7_Witness ==
    \E i \in Started :
        LET f == futures[i]
        IN  /\ f.state = "done" /\ Len(task_rows(f.task)) = 2
            /\ PresentModels(RowOf(f, 1), 1) = 1..NumModels
            /\ CellOf(RowOf(f, 1), 1, 1) # CellOf(RowOf(f, 1), 2, 1)
            /\ ~isnan(MedianCell(RowOf(f, 1), 1))
            /\ 2 * MedianCell(RowOf(f, 1), 1).v >
                  CellOf(RowOf(f, 1), 1, 1).v + CellOf(RowOf(f, 1), 2, 1).v
            /\ PresentModels(RowOf(f, 2), 1) = {}
            /\ isnan(MedianCell(RowOf(f, 2), 1))

(* the rows of a drawn table in which exactly one model has values *)
SoleModelRows(t) ==
    {r \in DOMAIN t.table :
        \E k \in 1..NumModels : \A g \in 0..2 : PresentModels(t.table[r], g) = {k}}

(* the cells and the median of a row with one model: the model's cells are *)
(* populated, the other models' are missing and every median is the        *)
(* model's value rounded to one decimal place                              *)
SoleModelCells(row) ==
    \A g \in 0..2 : \A k \in PresentModels(row, g) :
        /\ ~isnan(MedianCell(row, g))
        /\ IsRoundedToTenth(MedianCell(row, g).v, 2 * CellOf(row, k, g).v)
        /\ \A l \in (1..NumModels) \ {k} : isnan(CellOf(row, l, g))

(* C9: in a drawn table, a row in which exactly one model has a file has   *)
(* that model's three cells populated, every other model's cells missing,  *)
(* every median equal to the model's value rounded to one decimal, and the *)
(* outlier score of each of the model's cells defined and equal to 0.      *)
C9_SingleModel ==
    \A t \in rendered : \A r \in SoleModelRows(t) :
        /\ SoleModelCells(t.table[r])
        /\ \A g \in 0..2 : \A k \in PresentModels(t.table[r], g) :
              IsZeroScore(ScoreOf(t.z_scores[r], k, g))

(* the part of C9 about the cells and the median, which the code satisfies *)
C9_CellsAndMedian ==
    \A t \in rendered : \A r \in SoleModelRows(t) : SoleModelCells(t.table[r])

(* the score the code gives the sole present cell is not a number *)
C9_ScoreIsNaN ==
    \A t \in rendered : \A r \in SoleModelRows(t) :
        \A g \in 0..2 : \A k \in PresentModels(t.table[r], g) :
            ScoreOf(t.z_scores[r], k, g).nan

(* the step is the return of process_mean_min_max to task i: the cells of  *)
(* the task's current pair are stored                                      *)
Stores(i) ==
    /\ futures[i].pc = "validate" /\ Acts(i)
    /\ futures'[i].state # "failed"

(* cell c is the raw scalar x multiplied by the factor num / den *)
IsScaled(c, x, num, den) == ~isnan(c) /\ ~isnan(x) /\ c.v * den = x.v * num

(* C11: when the scalars of a present file are stored, for a variable of   *)
(* the conversion table the stored min, mean and max are the raw scalars   *)
(* multiplied by the variable's factor and the row's unit is the table's   *)
(* replacement unit, whatever the values; for any other variable the       *)
(* scalars are stored as they are and the unit is the variable record's    *)
(* unit between dollar signs, a lone '%' being escaped.                    *)
C11_UnitConversion ==
    [][
        /\ unit_dict([unit |-> "%"]) = <<"$", "\\%", "$">>
        /\ \A i \in DOMAIN futures :
             Stores(i) =>
                LET v == v_key_of(futures[i])
                    k == futures[i].mi
                    raw == process_mean_min_max(disk[gm_file_of(futures[i])], v, variable_dict[v])
                    stored == futures'[i].table[v]
                IN  /\ OnDisk(filename_of(futures[i]))
                    /\ raw.kind = "return"
                    /\ IF v \in DOMAIN conversion_factors
                       THEN /\ IsScaled(CellOf(stored, k, 0), raw.min,
                                        conversion_factors[v].num, conversion_factors[v].den)
                            /\ IsScaled(CellOf(stored, k, 1), raw.mean,
                                        conversion_factors[v].num, conversion_factors[v].den)
                            /\ IsScaled(CellOf(stored, k, 2), raw.max,
                                        conversion_factors[v].num, conversion_factors[v].den)
                            /\ stored[1] = conversion_factors[v].unit
                       ELSE /\ CellOf(stored, k, 0) = raw.min
                            /\ CellOf(stored, k, 1) = raw.mean
                            /\ CellOf(stored, k, 2) = raw.max
                            /\ stored[1] = <<"$", variable_dict[v].unit, "$">>
    ]_vars

(* a table with a converted row (ps: 100500 Pa stored as 1005 hPa, unit    *)
(* hPa) and a row that is not converted (sftlf)                            *)
C11_Witness ==
    \E i \in Started :
        LET f == futures[i]
        IN  /\ f.state = "done" /\ task_rows(f.task) = <<"ps", "sftlf">>
            /\ f.table["ps"][1] = <<"$", "hPa", "$">>
            /\ CellOf(f.table["ps"], 1, 1) = Num(1005)
            /\ f.table["sftlf"][1] = <<"$", "[0,1]", "$">>
            /\ \E k \in 1..NumModels : CellOf(f.table["sftlf"], k, 2) = Num(100)

(* the moves of a task's state that the pool allows *)
TaskMoves == {<<"pending", "running">>, <<"running", "done">>, <<"running", "failed">>}

(* C12: a task's state only moves pending -> running -> done or pending -> *)
(* running -> failed; a step of one task, its failure included, changes no *)
(* other task, and the step at which a task fails writes no file; every    *)
(* submitted task ends done or failed, whatever the other tasks do.        *)
C12_TaskStates ==
    /\ [][
          \A i \in DOMAIN futures :
             /\ futures'[i].state # futures[i].state =>
                    <<futures[i].state, futures'[i].state>> \in TaskMoves
             /\ Acts(i) =>
                    /\ \A j \in DOMAIN futures \ {i} : futures'[j] = futures[j]
                    /\ futures'[i].state = "failed" => disk' = disk
       ]_vars
    /\ (futures # <<>>) ~> (futures # <<>> /\ \A n \in DOMAIN futures : Finished(futures[n]))

(* one task has failed and every other task is done *)
C12_Witness ==
    \E i \in DOMAIN futures :
        /\ futures[i].state = "failed"
        /\ \A j \in DOMAIN futures \ {i} : futures[j].state = "done"

(* main has ended: it returned, or an exception left it *)
Ended == orch.pc \in {"returned", "exited"}

(* future.result() was called on future j: its stored exception, if any,   *)
(* was raised again in main                                                *)
Examined(j) ==
    /\ orch.pc \in {"results", "returned", "exited"}
    /\ j < orch.i \/ (orch.pc = "exited" /\ j = orch.i)

(* C13: once all tasks have completed and main has ended, the stored       *)
(* exception of every failed task has been raised again in main: none is   *)
(* left unexamined.                                                        *)
C13_AllSurfaced ==
    Ended => \A j \in DOMAIN futures : futures[j].state = "failed" => Examined(j)

(* what the code does: the futures are examined in submission order up to  *)
(* the first one that stored a SystemExit, which ends main; an Exception    *)
(* is printed and the loop goes on                                         *)
C13_UpToFirstExit ==
    Ended =>
        /\ \A j \in DOMAIN futures :
              Examined(j) <=> \A k \in 1..(j - 1) : futures[k].exception # "SystemExit"
        /\ \A j \in DOMAIN futures :
              (Examined(j) /\ futures[j].exception \in {"Exception", "CDOException"}) =>
                  <<"Task generated an exception", futures[j].exception, "">> \in stdout

(* a diagnostic line of regrid_file or process_mean_min_max was printed *)
Diagnosed == \E line \in stdout : line[1] \in {"Error", "Error regridding"}

(* the tasks that called sys.exit(): a data-invariant violation in         *)
(* process_mean_min_max or a failure of the regridding call                *)
Fatal == {i \in DOMAIN futures : futures[i].exception = "SystemExit"}

(* C14: a detected data-invariant violation or a failure of the external   *)
(* regridding call is preceded by a diagnostic line and the process ends   *)
(* with an exit status other than 0.                                       *)
C14_FatalNonZero ==
    Fatal # {} =>
        /\ Diagnosed
        /\ orch.pc # "returned"
        /\ Ended => exit_status(orch.exit) # 0

(* what the code does: the diagnostic is printed, main ends by the         *)
(* SystemExit, and the exit status is 0                                    *)
C14_ExitStatusZero ==
    Fatal # {} =>
        /\ Diagnosed
        /\ orch.pc # "returned"
        /\ Ended => orch.exit = "SystemExit" /\ exit_status(orch.exit) = 0

(* the external regridding call of some task has failed *)
RegridFailed == \E line \in stdout : line[1] = "Error regridding"

(* C15: once the external regridding call of a task has failed, no task    *)
(* starts or goes on processing (variable, model) pairs and no further     *)
(* table is rendered.                                                      *)
C15_NoIsolation ==
    [][RegridFailed => (futures' = futures /\ rendered' = rendered)]_vars

(* what the code does: the failure ends the one task; after it a sibling   *)
(* is still running and about to render its table                          *)
C15_SiblingGoesOn ==
    /\ RegridFailed
    /\ \E j \in DOMAIN futures : Running(j) /\ futures[j].pc = "draw"

(* the title of a task's table and the rendered artifacts of a task *)
TitleOf(task) == <<task[1], task[3], task[2]>>
ArtifactsOf(f) == {t \in rendered : t.title = TitleOf(f.task)}

(* C16: a rendered table is written by a task only after every row and     *)
(* every model of the task has been processed without a fatal error (the   *)
(* task is done, every pair whose file exists has its three cells, every   *)
(* row has its medians computed, and the artifact is the task's complete   *)
(* table); a task that has not finished or that failed has no artifact.    *)
C16_NoPartialTable ==
    \A i \in DOMAIN futures :
        LET f == futures[i]
        IN  IF f.state = "done"
            THEN /\ \A t \in ArtifactsOf(f) : t.table = f.table
                 /\ ArtifactsOf(f) # {}
                 /\ \A pr \in Pairs(f) :
                       OnDisk(SourceOf(f, pr)) => \A c \in CellsOf(f, pr) : ~isnan(c)
                 /\ \A vi \in 1..Len(task_rows(f.task)) : \A g \in 0..2 :
                       PresentModels(RowOf(f, vi), g) # {} => ~isnan(MedianCell(RowOf(f, vi), g))
            ELSE ArtifactsOf(f) = {}

(* one task failed at its second file, after it had filled the cells of    *)
(* the first, and has no artifact; another task is done and has rendered   *)
(* its table                                                               *)
C16_Witness ==
    \E i \in DOMAIN futures, j \in DOMAIN futures :
        /\ futures[i].state = "failed" /\ ArtifactsOf(futures[i]) = {}
        /\ \E pr \in Pairs(futures[i]) : \A c \in CellsOf(futures[i], pr) : ~isnan(c)
        /\ futures[j].state = "done" /\ ArtifactsOf(futures[j]) # {}

(* an external reduction (fldmean, fldmin, fldmax or merge) of some task   *)
(* has raised                                                              *)
ReductionFailed == \E i \in DOMAIN futures : futures[i].exception = "CDOException"

(* C17: a failure raised by an external reduction is fatal: main does not  *)
(* complete normally after it (it does not report it and return).         *)
C17_ReductionFatal == ReductionFailed => orch.pc # "returned"

(* what the code does: when no task called sys.exit(), the failure is      *)
(* printed by main, which then returns with status 0                       *)
C17_ReportedThenReturns ==
    (ReductionFailed /\ Fatal = {} /\ Ended) =>
        /\ orch.pc = "returned" /\ exit_status(orch.exit) = 0
        /\ <<"Task generated an exception", "CDOException", "">> \in stdout

(* C18: derived artifacts are keyed by source path: two different source  *)
(* paths never share a regridded or reduced artifact path, and no two      *)
(* distinct tasks process files that derive the same artifact.             *)
C18_KeyedBySource ==
    /\ \A a \in SourcePaths, b \in SourcePaths :
          a # b => DerivedPaths(a) \cap DerivedPaths(b) = {}
    /\ \A p \in RegriddedPaths : Cardinality(Sharers(p)) <= 1

(* what the code does: the derived name keeps the base name of the source  *)
(* only; the climatology and the time_series file of a time-invariant      *)
(* variable (no aggregation suffix) have the same base name and share      *)
(* every derived path; no other two source paths share one                 *)
C18_SharedWhenTimeInvariant ==
    \A a \in SourcePaths, b \in SourcePaths :
        a # b =>
            IF a.base = b.base /\ variable_dict[a.base[1]].dimensions <= 2
            THEN DerivedPaths(a) = DerivedPaths(b) /\ a.dir[6] # b.dir[6]
            ELSE DerivedPaths(a) \cap DerivedPaths(b) = {}

(* the mean and the time_series task of the atmosphere have both called    *)
(* the regridding tool on the same regridded path                          *)
C18_BothTasksRegridSamePath ==
    \E p \in RegriddedPaths :
        /\ Cardinality(Sharers(p)) = 2
        /\ Calls(p) = 2

(* every submitted task has ended, done or failed *)
AllEnded == futures # <<>> /\ \A n \in DOMAIN futures : futures[n].state \in {"done", "failed"}

(* C19: the orchestrator submits exactly one task for every element of     *)
(* experiments x time-aggregations x realms and no other task; its poll    *)
(* loop is left, and a task's result is inspected, only when every         *)
(* submitted task is done or failed; and once every task has ended the     *)
(* orchestrator eventually terminates.                                     *)
C19_Orchestrator ==
    /\ [](futures # <<>> =>
            /\ \A e \in Range(exp_dict_keys), t \in Range(time_list), r \in Range(table_list) :
                  Cardinality({n \in DOMAIN futures : futures[n].task = <<e, t, r>>}) = 1
            /\ \A n \in DOMAIN futures :
                  futures[n].task \in Range(exp_dict_keys) \X Range(time_list) \X Range(table_list))
    /\ [](orch.pc \in {"results", "returned", "exited"} => AllEnded)
    /\ [](orch.pc \in {"main", "poll"} => orch.i = 0)
    /\ AllEnded ~> Ended

(* main has inspected every result and returned, with a failed task among  *)
(* the tasks                                                               *)
C19_Witness ==
    /\ orch.pc = "returned" /\ orch.i = Len(tasks) + 1
    /\ Len(futures) = Len(exp_dict_keys) * Len(time_list) * Len(table_list)
    /\ \E n \in DOMAIN futures : futures[n].state = "failed"
    /\ \E n \in DOMAIN futures : futures[n].state = "done"

SelCallDone == call.fn = "sel" /\ call.pc = "done"

(* the result is the field of a level nearest to the unit's target *)
SelectsNearest(out, levels) ==
    /\ out.kind = "return"
    /\ IsNearest(levels, out.level, level_target(call.zunits))
    /\ out.mean = Num(levels[out.level])

(* C20 as claimed: for every set of levels and every permutation of their  *)
(* storage order the level selected as nearest to the target is the same   *)
(* level, also when two levels are equally distant from the target.        *)
C20_AnyOrder ==
    SelCallDone =>
        /\ SelectsNearest(call.out, call.levels)
        /\ SelectsNearest(call.out_permuted, call.permuted)
        /\ call.out.mean = call.out_permuted.mean

(* C20, amended: for the increasing and the decreasing storage order of a  *)
(* set of levels the selected level is the same, a nearest one, and of two *)
(* levels equally distant from the target the larger one; for a storage    *)
(* order that is neither, the selection raises a ValueError and no level   *)
(* is selected.                                                            *)
C20_MonotonicOrders ==
    SelCallDone =>
        LET sel(out, levels) ==
                IF StrictlyMonotonic(levels)
                THEN /\ SelectsNearest(out, levels)
                     /\ \A j \in DOMAIN levels :
                           IsNearest(levels, j, level_target(call.zunits)) =>
                               levels[j] <= levels[out.level]
                ELSE out = Throw("ValueError")
        IN  /\ sel(call.out, call.levels)
            /\ sel(call.out_permuted, call.permuted)
            /\ (StrictlyMonotonic(call.levels) /\ StrictlyMonotonic(call.permuted)) =>
                  call.out.mean = call.out_permuted.mean

(* 25000 and 75000 are equally far from 50000: stored in increasing and in *)
(* decreasing order, 75000 is selected both times                          *)
C20_Witness ==
    /\ SelCallDone /\ call.zunits = "Pa"
    /\ call.levels = <<25000, 75000, 100000>>
    /\ call.permuted = <<100000, 75000, 25000>>
    /\ call.out.kind = "return" /\ call.out.level = 2
    /\ call.out_permuted.kind = "return" /\ call.out_permuted.level = 2
    /\ call.out.mean = Num(75000) /\ call.out_permuted.mean = Num(75000)

-----------------------------------------------------------------------------
(* The model table and the two places that read a model's family           *)

(* The model table under dictionaries/ (deepmip_eocene-p1-models.py): a    *)
(* record names the model's "group"; no record has a "family" field.       *)
eocene_p1_models ==
    [m \in {model_keys[i] : i \in DOMAIN model_keys} |->
        CASE m = "CESM1.2-CAM5" ->
                 [versn |-> "v1.0", group |-> "CESM", abbrv |-> "CESM",
                  exps |-> <<"deepmip-eocene-p1-PI", "deepmip-eocene-p1-x1",
                             "deepmip-eocene-p1-x3", "deepmip-eocene-p1-x6",
                             "deepmip-eocene-p1-x9">>]
          [] m = "COSMOS-landveg-r2413" ->
                 [versn |-> "v1.0", group |-> "COSMOS", abbrv |-> "COSMOS",
                  exps |-> <<"deepmip-eocene-p1-PI", "deepmip-eocene-p1-x1",
                             "deepmip-eocene-p1-x3", "deepmip-eocene-p1-x4">>]]

(* The same records as a table that names the family would hold them.      *)
with_family(table) ==
    [m \in DOMAIN table |->
        [versn |-> table[m].versn, family |-> table[m].group, abbrv |-> table[m].abbrv,
         exps |-> table[m].exps]]

(* The tables a run may import as model_dict, by module name. *)
ModelTables == {"dictionaries/deepmip_eocene-p1-models", "dictionaries.deepmip_eocene_p1_models"}

table_of(name) ==
    IF name = "dictionaries/deepmip_eocene-p1-models" THEN eocene_p1_models
    ELSE with_family(eocene_p1_models)

(* filename = construct_filename(...); check_file_exists(filename): the    *)
(* boolean, or the exception construct_filename raised                     *)
lookup(e_key, v_key, m_key, model_info, variable_info, time_key) ==
    LET filename == construct_filename(e_key, v_key, m_key, model_info, variable_info, time_key)
    IN  IF Raised(filename) THEN Throw(filename.raised)
        ELSE [kind |-> "return", value |-> check_file_exists(filename)]

(* for key, value in model_dict.items(): yield key, value["family"],       *)
(* value["exps"].  The triples yielded, and the exception that ended the   *)
(* iteration if a record has no family.                                    *)
RECURSIVE get_model_keys_from(_, _, _)
get_model_keys_from(table, keys, k) ==
    IF k > Len(keys) THEN [yielded |-> <<>>, raised |-> ""]
    ELSE IF "family" \notin DOMAIN table[keys[k]] THEN [yielded |-> <<>>, raised |-> "KeyError"]
    ELSE LET rest == get_model_keys_from(table, keys, k + 1)
         IN  [rest EXCEPT !.yielded = <<<<keys[k], table[keys[k]].family, table[keys[k]].exps>>>> \o @]

get_model_keys(table) == get_model_keys_from(table, model_keys, 1)

(* One call of the file lookup of the validation script, or of             *)
(* get_model_keys of the regrid script, with either table as model_dict    *)
(* and an archive that holds any of the source files.                      *)
InitTable ==
    /\ cdo_calls = <<>>
    /\ futures = <<>>
    /\ orch = [pc |-> "none"]
    /\ stdout = {}
    /\ rendered = {}
    /\ \E S \in SUBSET SourcePaths :
          /\ Cardinality(S) <= 1
          /\ disk = [p \in S |-> source_dataset(p, "good")]
    /\ \/ call \in [fn : {"lookup"}, pc : {"call"}, table : ModelTables,
                    e_key : Range(exp_dict_keys), v_key : DOMAIN variable_dict,
                    m_key : Range(model_keys), time_key : Range(time_list)]
       \/ call \in [fn : {"get_model_keys"}, pc : {"call"}, table : ModelTables]

CallLookup ==
    /\ call.fn = "lookup" /\ call.pc = "call"
    /\ call' = [fn |-> call.fn, pc |-> "done", table |-> call.table, e_key |-> call.e_key,
                v_key |-> call.v_key, m_key |-> call.m_key, time_key |-> call.time_key,
                out |-> lookup(call.e_key, call.v_key, call.m_key,
                               table_of(call.table)[call.m_key],
                               variable_dict[call.v_key], call.time_key)]
    /\ UNCHANGED <<disk, cdo_calls, futures, orch, stdout, rendered>>

CallGetModelKeys ==
    /\ call.fn = "get_model_keys" /\ call.pc = "call"
    /\ call' = [fn |-> call.fn, pc |-> "done", table |-> call.table,
                out |-> get_model_keys(table_of(call.table))]
    /\ UNCHANGED <<disk, cdo_calls, futures, orch, stdout, rendered>>

SpecTable == InitTable /\ [][CallLookup \/ CallGetModelKeys]_vars

TableCallDone == call.fn \in {"lookup", "get_model_keys"} /\ call.pc = "done"

(* C21 as claimed: with the records of the model table, the file lookup of *)
(* the validation script returns a boolean for every experiment, variable, *)
(* model and mode, and get_model_keys of the regrid script yields a triple *)
(* for every model; neither raises.                                        *)
C21_LookupTotal ==
    (TableCallDone /\ call.table = "dictionaries/deepmip_eocene-p1-models") =>
        /\ call.fn = "lookup" => (call.out.kind = "return" /\ call.out.value \in BOOLEAN)
        /\ call.fn = "get_model_keys" =>
              /\ call.out.raised = ""
              /\ Len(call.out.yielded) = Len(model_keys)

(* With records that carry a "family" field both are total: the lookup     *)
(* answers whether the file it names is in the archive, get_model_keys     *)
(* yields (key, family, experiments) for every model in table order.       *)
C21_TotalWithFamily ==
    (TableCallDone /\ call.table = "dictionaries.deepmip_eocene_p1_models") =>
        /\ call.fn = "lookup" =>
              call.out.kind = "return" /\ call.out.value = (\E p \in DOMAIN disk :
                             /\ p.dir = <<DBDIR, eocene_p1_models[call.m_key].group, call.m_key,
                                          call.e_key, VERSION,
                                          IF call.time_key = "mean" THEN "climatology"
                                          ELSE "time_series">>
                             /\ p.base = <<call.v_key, call.m_key, call.e_key, "v1.0">>)
        /\ call.fn = "get_model_keys" =>
              /\ call.out.raised = ""
              /\ call.out.yielded = [k \in DOMAIN model_keys |->
                                       <<model_keys[k], eocene_p1_models[model_keys[k]].group,
                                         eocene_p1_models[model_keys[k]].exps>>]

(* every record of the table in src makes both raise KeyError *)
C21_KeyErrorOnGroupRecords ==
    (TableCallDone /\ call.table = "dictionaries/deepmip_eocene-p1-models") =>
        /\ call.fn = "lookup" => call.out = Throw("KeyError")
        /\ call.fn = "get_model_keys" => call.out = [yielded |-> <<>>, raised |-> "KeyError"]

-----------------------------------------------------------------------------
(* regrid_deepmip_data.py                                                  *)

OUTDIR == <<DBDIR, "regridded_fields">>
TARGET_GRID == "r360x180"
ATM_REGRIDDING == "remapbil"
OCN_REGRIDDING == "remapnn"
(* VARIABLES of regrid_deepmip_data.py *)
REGRID_VARIABLES == <<"tas", "tos", "pr">>

(* variable_dict.get(variable, {}).get("realm", "Variable not found") for  *)
(* the records of tas, tos and pr                                          *)
get_realm(variable) ==
    CASE variable \in {"tas", "pr"} -> "atmos"
      [] variable = "tos"           -> "ocean"
      [] OTHER                      -> "Variable not found"

MaxExps == 1      \* the experiments of a model the main loop visits
MaxListed == 3    \* the entries the archive holds when the script starts

Most(s) == SubSeq(s, 1, Len(s) - 1)

(* os.path.join(DBDIR, family, key, exp, VERSION, "climatology") *)
in_dir_of(family, key, exp) == <<DBDIR, family, key, exp, VERSION, "climatology">>

DirEntry(dir) == [dir |-> dir, base |-> <<>>, ext |-> <<>>]
IsDir(dir) == \E p \in DOMAIN disk : p.dir = dir

(* f.startswith(f"{var}_") and f.endswith(".mean.nc") *)
name_matches(p, var) ==
    /\ Len(p.base) >= 2 /\ p.base[1] = var
    /\ Len(p.ext) >= 2 /\ SubSeq(p.ext, Len(p.ext) - 1, Len(p.ext)) = <<"mean", "nc">>

(* the files of in_dir whose name matches <var>_*.mean.nc *)
files(in_dir, var) == {p \in DOMAIN disk : p.dir = in_dir /\ name_matches(p, var)}

(* f"{os.path.splitext(input_file)[0]}.{TARGET_GRID}.nc" in out_dir *)
output_file(input_file, out_dir) ==
    [dir |-> out_dir, base |-> input_file.base, ext |-> Most(input_file.ext) \o <<TARGET_GRID, "nc">>]

(* f"{os.path.splitext(output_file)[0]}.filled.nc" *)
filled_output_file(output) ==
    [dir |-> output.dir, base |-> output.base, ext |-> Most(output.ext) \o <<"filled", "nc">>]

(* faulty variant: both realms are interpolated bilinearly *)
regridding_bilinear_only(realm) ==
    IF realm \in {"atmos", "ocean"} THEN ATM_REGRIDDING ELSE "none"

(* the operator regrid_variable passes to cdo for a realm *)
regridding(realm) ==
    IF realm = "atmos" THEN ATM_REGRIDDING
    ELSE IF realm = "ocean" THEN OCN_REGRIDDING
    ELSE "none"

(* the names a climatology directory may hold for a variable: two that     *)
(* match <var>_*.mean.nc, one of another variable, one of another mode     *)
listed(in_dir, key, exp, var) ==
    LET other == CASE var = "tas" -> "tasmax" [] var = "tos" -> "tossq" [] OTHER -> "prw"
    IN  {[dir |-> in_dir, base |-> <<var, key, exp, "v1.0">>, ext |-> <<"mean", "nc">>],
         [dir |-> in_dir, base |-> <<var, key, exp, "v1.1">>, ext |-> <<"mean", "nc">>],
         [dir |-> in_dir, base |-> <<other, key, exp, "v1.0">>, ext |-> <<"mean", "nc">>],
         [dir |-> in_dir, base |-> <<var, key, exp, "v1.0">>, ext |-> <<"time_series", "nc">>]}

RegridCandidates ==
    UNION {LET rec == eocene_p1_models[model_keys[k]]
           IN  UNION {LET in_dir == in_dir_of(rec.group, model_keys[k], rec.exps[e])
                      IN  {DirEntry(in_dir)} \cup
                          UNION {listed(in_dir, model_keys[k], rec.exps[e], REGRID_VARIABLES[v]) :
                                    v \in DOMAIN REGRID_VARIABLES}
                      : e \in 1..MaxExps}
           : k \in DOMAIN model_keys}

log(level, message) == stdout \cup {[level |-> level, message |-> message]}

(* The script starts on an archive that holds at most MaxListed entries    *)
(* of the climatology directories, with either table as model_dict.        *)
InitRegrid ==
    /\ call = NoCall
    /\ futures = <<>>
    /\ rendered = {}
    /\ cdo_calls = <<>>
    /\ stdout = {}
    /\ \E S \in SUBSET RegridCandidates :
          /\ Cardinality(S) <= MaxListed
          /\ disk = [p \in S |-> IF p = DirEntry(p.dir) THEN [kind |-> "dir"]
                                 ELSE [kind |-> "file", grid |-> "native"]]
    /\ \E t \in ModelTables :
          orch = [pc |-> "check", table |-> t, m |-> 0, e |-> 0, v |-> 0,
                  exit |-> "none", exc |-> ""]

(* check_requirements(): DBDIR is a directory (it is when the archive      *)
(* holds anything), cdo and python3 are on the path                        *)
CheckRequirements ==
    /\ orch.pc = "check"
    /\ \E missing \in {"none", "cdo", "python3"} \cup (IF disk = <<>> THEN {"DBDIR"} ELSE {}) :
          IF missing = "none"
          THEN /\ orch' = [orch EXCEPT !.pc = "models"]
               /\ stdout' = stdout
          ELSE /\ orch' = [orch EXCEPT !.pc = "exited", !.exit = "1", !.exc = "SystemExit"]
               /\ stdout' = log("ERROR", <<"requirement not found", missing>>)
    /\ UNCHANGED <<disk, cdo_calls, futures, rendered, call>>

(* the experiments of model k the loop visits *)
exps_of(o) ==
    LET exps == table_of(o.table)[model_keys[o.m]].exps
    IN  SubSeq(exps, 1, IF Len(exps) < MaxExps THEN Len(exps) ELSE MaxExps)

(* the loop position after the body for (model, exp, var) *)
advance(o) ==
    IF o.v < Len(REGRID_VARIABLES) THEN [o EXCEPT !.pc = "vars", !.v = @ + 1]
    ELSE IF o.e < Len(exps_of(o)) THEN [o EXCEPT !.pc = "vars", !.e = @ + 1, !.v = 1]
    ELSE [o EXCEPT !.pc = "models"]

(* for key, family, experiments in get_model_keys(): the generator reads   *)
(* the next record's family; main returns when the table is exhausted      *)
NextModel ==
    /\ orch.pc = "models"
    /\ LET k == orch.m + 1
       IN  IF k > Len(model_keys)
           THEN orch' = [orch EXCEPT !.pc = "returned", !.exit = "0"]
           ELSE IF "family" \notin DOMAIN table_of(orch.table)[model_keys[k]]
           THEN orch' = [orch EXCEPT !.pc = "raised", !.exit = "1", !.exc = "KeyError"]
           ELSE orch' = [orch EXCEPT !.pc = "vars", !.m = k, !.e = 1, !.v = 1]
    /\ UNCHANGED <<disk, cdo_calls, futures, stdout, rendered, call>>

(* subprocess.run(["cdo", operator, input, output]): the invocation is     *)
(* logged; the output exists afterwards if the tool succeeded.  The return *)
(* code is not examined.                                                   *)
run_cdo(operator, input, output, ok) ==
    /\ cdo_calls' = Append(cdo_calls, [operator |-> operator, input |-> input, output |-> output])
    /\ disk' = IF ok /\ input \in DOMAIN disk
               THEN written(output, [kind |-> "file", grid |-> TARGET_GRID])
               ELSE disk

(* The body of main's innermost loop for one variable, with                *)
(* regrid_variable up to its first cdo call.                               *)
RegridVariable ==
    /\ orch.pc = "vars"
    /\ LET key == model_keys[orch.m]
           family == table_of(orch.table)[key].family
           exp == exps_of(orch)[orch.e]
           var == REGRID_VARIABLES[orch.v]
           in_dir == in_dir_of(family, key, exp)
           realm == get_realm(var)
           found == files(in_dir, var)
           processing == log("INFO", <<"Processing model", key, var, exp>>)
       IN  IF realm = "Variable not found"
           THEN /\ stdout' = log("ERROR", <<"Variable not found", var>>)
                /\ orch' = [orch EXCEPT !.pc = "exited", !.exit = "1", !.exc = "SystemExit"]
                /\ UNCHANGED <<disk, cdo_calls>>
           ELSE IF ~IsDir(in_dir)                              \* os.chdir(in_dir)
           THEN /\ stdout' = processing
                /\ orch' = [orch EXCEPT !.pc = "raised", !.exit = "1", !.exc = "FileNotFoundError"]
                /\ UNCHANGED <<disk, cdo_calls>>
           ELSE IF Cardinality(found) = 1
           THEN \E input_file \in found, ok \in BOOLEAN :
                   /\ stdout' = processing
                   /\ IF regridding(realm) = "none"
                      THEN UNCHANGED <<disk, cdo_calls>>
                      ELSE run_cdo(regridding(realm), input_file,
                                   output_file(input_file, OUTDIR), ok)
                   /\ orch' = IF realm = "ocean" /\ var = "tos"
                              THEN [orch EXCEPT !.pc = "fill"]
                              ELSE advance(orch)
           ELSE IF Cardinality(found) > 1
           THEN /\ stdout' = processing \cup
                             {[level |-> "ERROR", message |-> <<"More than one file found", var>>]}
                /\ orch' = [orch EXCEPT !.pc = "exited", !.exit = "1", !.exc = "SystemExit"]
                /\ UNCHANGED <<disk, cdo_calls>>
           ELSE /\ stdout' = processing \cup
                             {[level |-> "INFO", message |-> <<"No file found", var, in_dir>>]}
                /\ orch' = advance(orch)
                /\ UNCHANGED <<disk, cdo_calls>>
    /\ UNCHANGED <<futures, rendered, call>>

(* the second cdo call of regrid_variable for tos: -setmisstonn on the     *)
(* regridded file                                                          *)
Fill ==
    /\ orch.pc = "fill"
    /\ LET output == cdo_calls[Len(cdo_calls)].output
       IN  \E ok \in BOOLEAN :
              run_cdo("setmisstonn", output, filled_output_file(output), ok)
    /\ orch' = advance(orch)
    /\ UNCHANGED <<futures, stdout, rendered, call>>

SpecRegrid == InitRegrid /\ [][CheckRequirements \/ NextModel \/ RegridVariable \/ Fill]_vars

(* ---- C22 ---- *)

(* regrid_variable is entered: main is at a variable of a known realm and  *)
(* the input directory exists                                              *)
AtVariable == orch.pc = "vars" /\ IsDir(in_dir_of(table_of(orch.table)[model_keys[orch.m]].family,
                                                  model_keys[orch.m], exps_of(orch)[orch.e]))

(* What one call of regrid_variable does, by the number of files of the    *)
(* input directory that match <var>_*.mean.nc.                             *)
Dispatch ==
    AtVariable =>
        LET key == model_keys[orch.m]
            var == REGRID_VARIABLES[orch.v]
            in_dir == in_dir_of(table_of(orch.table)[key].family, key, exps_of(orch)[orch.e])
            found == files(in_dir, var)
            n == Cardinality(found)
            method == IF get_realm(var) = "atmos" THEN "remapbil" ELSE "remapnn"
        IN  /\ n = 1 =>
                 /\ Len(cdo_calls') = Len(cdo_calls) + 1
                 /\ LET c == cdo_calls'[Len(cdo_calls')]
                    IN  /\ c.operator = method
                        /\ c.input \in found
                        /\ c.output = [dir |-> OUTDIR, base |-> c.input.base,
                                       ext |-> <<"mean", "r360x180", "nc">>]
                 /\ orch'.exit = "none"
                 /\ orch'.pc = "fill" <=> var = "tos"
            /\ n > 1 =>
                 /\ cdo_calls' = cdo_calls /\ disk' = disk
                 /\ orch'.pc = "exited" /\ orch'.exit = "1"
                 /\ \E l \in stdout' \ stdout : l.level = "ERROR"
            /\ n = 0 =>
                 /\ cdo_calls' = cdo_calls /\ disk' = disk
                 /\ \E l \in stdout' \ stdout : l.level = "INFO" /\ l.message[1] = "No file found"
                 /\ \A l \in stdout' : l.level # "ERROR"
                 /\ orch'.exit = "none"
                 /\ orch' = IF orch.v < Len(REGRID_VARIABLES)
                            THEN [orch EXCEPT !.v = @ + 1]
                            ELSE [orch EXCEPT !.pc = "models"]

(* every fill step is the call right after the nearest-neighbour regrid of *)
(* a tos file and reads that call's output path                            *)
FillFollowsRegrid ==
    \A k \in DOMAIN cdo_calls :
        cdo_calls[k].operator = "setmisstonn" =>
            /\ k > 1
            /\ cdo_calls[k - 1].operator = "remapnn"
            /\ cdo_calls[k - 1].input.base[1] = "tos"
            /\ cdo_calls[k].input = cdo_calls[k - 1].output
            /\ cdo_calls[k].output = [dir |-> OUTDIR, base |-> cdo_calls[k].input.base,
                                      ext |-> <<"mean", "r360x180", "filled", "nc">>]

(* the regridded file a fill step reads has been produced *)
FillReadsProducedFile ==
    \A k \in DOMAIN cdo_calls :
        cdo_calls[k].operator = "setmisstonn" => cdo_calls[k].input \in DOMAIN disk

(* C22 as claimed: regrid_variable acts on the number of files matching    *)
(* <var>_*.mean.nc.  One match is regridded (remapbil for atmos, remapnn   *)
(* for ocean) and, for tos, filled by a step that runs only after the      *)
(* regridded file has been produced; more than one match logs an ERROR and *)
(* exits with status 1 without a tool call; no match logs an INFO line and *)
(* returns without a tool call, and main goes on with the next variable.   *)
C22_RegridVariable ==
    /\ [][Dispatch]_vars
    /\ [](FillFollowsRegrid /\ FillReadsProducedFile)

(* What holds of the code: the dispatch on the number of matches, and the  *)
(* fill step invoked right after the regrid call on its output path,       *)
(* whether or not that call produced the file.                             *)
C22_DispatchAndFillOrder ==
    /\ [][Dispatch]_vars
    /\ []FillFollowsRegrid

(* the fill step has been invoked on a regridded file that does not exist  *)
C22_FillWithoutRegriddedFile ==
    \E k \in DOMAIN cdo_calls :
        /\ cdo_calls[k].operator = "setmisstonn"
        /\ cdo_calls[k].input \notin DOMAIN disk

(* a run that regridded tas bilinearly, regridded and filled tos, found no *)
(* pr file and went on to the next model                                   *)
C22_AllThreeVariables ==
    /\ orch.m = 2 /\ Len(cdo_calls) = 3
    /\ cdo_calls[1].operator = "remapbil" /\ cdo_calls[2].operator = "remapnn"
    /\ cdo_calls[3].operator = "setmisstonn"
    /\ \A k \in 1..3 : cdo_calls[k].output \in DOMAIN disk
    /\ \E l \in stdout : l.level = "INFO" /\ l.message[1] = "No file found" /\ l.message[2] = "pr"

(* ---- C23 ---- *)

(* the models with a present file for row r of task f *)
ModelsWithFile(f, r) ==
    {k \in 1..NumModels : OnDisk(source_file(f.task, task_rows(f.task)[r], model_keys[k]))}

(* the loop over the models has ended for row r of task f *)
RowComplete(f, r) == f.state \in {"running", "done"} /\ (f.vi > r \/ f.pc \in {"draw", "end"})

(* the loop over the models is at model f.mi of row r *)
RowInProgress(f, r) == f.state = "running" /\ f.vi = r /\ f.pc \notin {"queued", "draw", "end"}

(* the unit cell of every row of a running or finished table, by how far   *)
(* the loops have come                                                     *)
UnitByPresence ==
    \A i \in Started :
        LET f == futures[i]
        IN  f.state \in {"running", "done"} =>
              \A r \in DOMAIN task_rows(f.task) :
                 LET v == task_rows(f.task)[r]
                     unit == f.table[v][1]
                     original == <<"$", variable_dict[v].unit, "$">>
                     convertible == v \in DOMAIN conversion_factors
                     replacement == IF convertible THEN conversion_factors[v].unit ELSE original
                     processed == IF RowComplete(f, r) THEN ModelsWithFile(f, r)
                                  ELSE IF RowInProgress(f, r)
                                  THEN {k \in ModelsWithFile(f, r) : k < f.mi}
                                  ELSE {}
                 IN  /\ (RowComplete(f, r) \/ RowInProgress(f, r)) =>
                           /\ unit = IF convertible /\ processed # {} THEN replacement
                                     ELSE original
                           /\ convertible => replacement # original
                     /\ ~(RowComplete(f, r) \/ RowInProgress(f, r)) => unit = <<"0">>

(* a step of task i leaves the unit cell of every row but the current one  *)
(* as it is, except that a row whose loop begins gets its original unit;   *)
(* the tables of the other tasks do not change                             *)
UnitFrame ==
    \A i \in DOMAIN futures :
        (Acts(i) /\ futures[i].state = "running" /\ futures'[i].state # "failed") =>
            /\ \A r \in DOMAIN task_rows(futures[i].task) :
                  LET v == task_rows(futures[i].task)[r]
                  IN  r # futures[i].vi =>
                         futures'[i].table[v][1] =
                            IF r > futures[i].vi /\ r <= futures'[i].vi
                            THEN <<"$", variable_dict[v].unit, "$">>
                            ELSE futures[i].table[v][1]
            /\ \A j \in DOMAIN futures \ {i} : futures'[j] = futures[j]

(* C23: a row of a variable of the conversion table shows the replacement  *)
(* unit if and only if at least one model has a present file for the       *)
(* variable in the task (once the loop over the models has ended for the   *)
(* row; while it runs, a model before the current one); with no such file  *)
(* the row keeps the variable record's unit; processing a model leaves the *)
(* unit cell of every other row unchanged.                                 *)
C23_UnitByPresence ==
    /\ []UnitByPresence
    /\ [][UnitFrame]_vars

(* two tables have been drawn, one whose ps row shows hPa, with a ps file  *)
(* present for a model, and one whose ps row shows Pa, no model having a   *)
(* ps file in that task; both rows are followed by the row of sftlf        *)
C23_Witness ==
    \E i, j \in Started :
        LET f == futures[i]
            g == futures[j]
        IN  /\ f.state = "done" /\ g.state = "done"
            /\ task_rows(f.task) = <<"ps", "sftlf">> /\ task_rows(g.task) = <<"ps", "sftlf">>
            /\ ModelsWithFile(f, 1) # {} /\ f.table["ps"][1] = <<"$", "hPa", "$">>
            /\ ModelsWithFile(g, 1) = {} /\ g.table["ps"][1] = <<"$", "Pa", "$">>
            /\ [title |-> <<f.task[1], f.task[3], f.task[2]>>, table |-> f.table,
                z_scores |-> compute_group_z_scores(f.table)] \in rendered
            /\ f.table["sftlf"][1] = <<"$", "[0,1]", "$">>

=============================================================================
